---- MODULE Spec2Model ----
(***************************************************************************)
(* A model of the polyman trading agent: the helper arithmetic            *)
(* (utils/helpers.py), the RiskManager (services/risk_manager.py) and the *)
(* aggregation and decision loop of PolymarketAgent (main.py).            *)
(*                                                                         *)
(* Number representation.  Probabilities, prices, confidences, edges and  *)
(* risk scores are the source's floats held in hundredths (0.7 is 70).    *)
(* A final confidence, the product of two such numbers, is held in        *)
(* ten-thousandths.  max_position and risk_limit are currency amounts     *)
(* held in half units (50 is 100), so that a limit need not be a whole    *)
(* number; a position size is a whole currency amount, as int() makes it. *)
(* Arithmetic is exact: the rounding of binary floating point is not      *)
(* modelled.  A calendar date is a day number.                            *)
(***************************************************************************)
EXTENDS Integers, Sequences, FiniteSets, TLC

VARIABLES
    today,             \* the date datetime.now().date() returns
    daily_trades,      \* RiskManager.daily_trades
    last_reset,        \* RiskManager.last_reset
    open_positions,    \* RiskManager.open_positions
    op,                \* the operation that made the last step
    opportunity,       \* the dict last passed to evaluate_opportunity
    evaluation,        \* the dict evaluate_opportunity last returned
    compared,          \* the daily_trades values read by the limit comparisons of that call
    rolled,            \* whether that call observed a date later than last_reset
    args,              \* the arguments of a helper call
    ret,               \* what the helper call returned
    mock_trading,      \* PolymarketAgent.mock_trading (config.MOCK_TRADING)
    pc,                \* where the agent is in scan_and_trade
    strategy_results,  \* what each active strategy's find_opportunities returned
    opportunities,     \* the deduplicated, sorted list of scan_and_trade
    i                  \* the position of evaluate_and_execute in that list

loopVars == <<mock_trading, pc, strategy_results, opportunities, i>>

vars == <<today, daily_trades, last_reset, open_positions, op, opportunity,
          evaluation, compared, rolled, args, ret, loopVars>>

\* Optional[float]: None is the empty set and the number h is {h}.
None == {}
Some(h) == {h}

\* What a call does: it returns a value or raises.
Return(v) == [raised |-> FALSE, value |-> v]
Raise == [raised |-> TRUE, value |-> 0]

\* No dict: the value of opportunity and evaluation when the last step was no evaluation.
NoOpportunity ==
    [confidence |-> 0, edge |-> 0, current_price |-> 0, expected_value |-> 0,
     volume |-> 0, hours_to_expiry |-> None]
NoEvaluation ==
    [should_trade |-> FALSE, position_size |-> 0, final_confidence |-> 0,
     risk_score |-> 0, reasoning |-> << >>]
NoArgs == [edge |-> 0, current_price |-> 0, max_position |-> 0, risk_limit |-> 0,
           volume |-> 0, hours_to_expiry |-> None]

(***************************************************************************)
(* Bounds of the model and configured values.                              *)
(***************************************************************************)
\* The last day the clock reaches.
MaxDay == 2

\* config.MAX_DAILY_TRADES and config.MAX_OPEN_POSITIONS are read from the
\* environment (defaults 10 and 20); the model runs with small configured values.
MAX_DAILY_TRADES == 2
MAX_OPEN_POSITIONS == 3

\* config.MIN_CONFIDENCE_THRESHOLD (0.7), in hundredths.
MIN_CONFIDENCE_THRESHOLD == 70
\* config.MAX_POSITION_SIZE and config.RISK_LIMIT_PER_TRADE, whole currency units.
MAX_POSITION_SIZE == 100
RISK_LIMIT_PER_TRADE == 50
\* conservative_factor's default (0.25), in hundredths.
conservative_factor == 25

(***************************************************************************)
(* utils/helpers.py                                                        *)
(***************************************************************************)
\* int(x) for the rational x = num / den, den > 0: truncation towards zero.
int(num, den) == IF num >= 0 THEN num \div den ELSE -((-num) \div den)

max(a, b) == IF a >= b THEN a ELSE b

calculate_kelly_size_NoUnitGuard(edge, current_price, max_position, risk_limit) ==
    IF current_price > 100 THEN Return(0)
    ELSE IF 100 - current_price = 0 THEN Raise   \* ZeroDivisionError
    ELSE LET den == 100 * 2 * (100 - current_price)
             num == edge * conservative_factor * max_position
         IN IF num * 2 <= risk_limit * den
            THEN Return(max(0, int(num, den)))
            ELSE Return(max(0, int(risk_limit, 2)))

\* calculate_kelly_size: edge and current_price in hundredths, max_position and
\* risk_limit in half units; the result is a whole amount, or the exception raised.
\*   kelly_fraction = edge / (1 - current_price)
\*   raw_size       = kelly_fraction * conservative_factor * max_position
\*                  = num / den   (in whole units)
\*   final_size     = min(raw_size, risk_limit)
calculate_kelly_size(edge, current_price, max_position, risk_limit) ==
    IF current_price >= 100 THEN Return(0)
    ELSE IF 100 - current_price = 0 THEN Raise   \* ZeroDivisionError
    ELSE LET den == 100 * 2 * (100 - current_price)
             num == edge * conservative_factor * max_position
         IN IF num * 2 <= risk_limit * den
            THEN Return(max(0, int(num, den)))
            ELSE Return(max(0, int(risk_limit, 2)))

\* calculate_risk_score: volume a number, hours_to_expiry a number or None,
\* edge in hundredths; the score in hundredths.  `hours_to_expiry and ...` is
\* Python truthiness: None and 0 are both false, every other number is true.
calculate_risk_score(volume, hours_to_expiry, edge) ==
    LET volume_risk == IF volume < 50000 THEN 30 ELSE 0
        time_risk   == IF \E h \in hours_to_expiry : h # 0 /\ h < 24
                       THEN 30 ELSE 0
        edge_risk   == IF edge < 10 THEN 40 ELSE 0
    IN volume_risk + time_risk + edge_risk

(***************************************************************************)
(* services/risk_manager.py.  The manager's fields travel as a record      *)
(* rm = [daily_trades, last_reset, open_positions]; now is the date the    *)
(* call observes.                                                          *)
(***************************************************************************)
reset_daily_counter_SameDay(rm, now) ==
    IF now >= rm.last_reset
    THEN [rm EXCEPT !.daily_trades = 0, !.last_reset = now]
    ELSE rm

reset_daily_counter(rm, now) ==
    IF now > rm.last_reset
    THEN [rm EXCEPT !.daily_trades = 0, !.last_reset = now]
    ELSE rm

can_trade_OffByOne(rm, now) ==
    LET r == reset_daily_counter(rm, now)
    IN [rm   |-> r,
        ok   |-> IF r.daily_trades > MAX_DAILY_TRADES THEN FALSE
                 ELSE IF r.open_positions > MAX_OPEN_POSITIONS THEN FALSE
                 ELSE TRUE,
        read |-> r.daily_trades]

\* can_trade: the manager after the reset, the answer, and the daily_trades
\* value the comparison of line 31 read.
can_trade(rm, now) ==
    LET r == reset_daily_counter(rm, now)
    IN [rm   |-> r,
        ok   |-> IF r.daily_trades >= MAX_DAILY_TRADES THEN FALSE
                 ELSE IF r.open_positions >= MAX_OPEN_POSITIONS THEN FALSE
                 ELSE TRUE,
        read |-> r.daily_trades]

calculate_position_size(edge, current_price) ==
    calculate_kelly_size(edge, current_price,
                         2 * MAX_POSITION_SIZE, 2 * RISK_LIMIT_PER_TRADE).value

generate_reasoning_NoLimitCheck(rm, now, opp, should_trade, final_confidence, risk_score) ==
    IF should_trade
    THEN [rm |-> rm, compared |-> << >>,
          reasons |-> <<"confidence", "expected_value", "price_advantage">>]
    ELSE [rm |-> rm, compared |-> << >>,
          reasons |->
              (IF final_confidence < MIN_CONFIDENCE_THRESHOLD * 100
               THEN <<"insufficient_confidence">> ELSE << >>)
           \o (IF opp.expected_value <= 5
               THEN <<"expected_value_too_small">> ELSE << >>)
           \o (IF risk_score > 50
               THEN <<"risk_score_too_high">> ELSE << >>)]

generate_reasoning_StrictlyBelowOnly(rm, now, opp, should_trade, final_confidence, risk_score) ==
    IF should_trade
    THEN [rm |-> rm, compared |-> << >>,
          reasons |-> <<"confidence", "expected_value", "price_advantage">>]
    ELSE LET ct == can_trade(rm, now)
         IN [rm |-> ct.rm, compared |-> <<ct.read>>,
             reasons |->
                 (IF final_confidence < (MIN_CONFIDENCE_THRESHOLD - 10) * 100
                  THEN <<"insufficient_confidence">> ELSE << >>)
              \o (IF opp.expected_value <= 5
                  THEN <<"expected_value_too_small">> ELSE << >>)
              \o (IF risk_score > 50
                  THEN <<"risk_score_too_high">> ELSE << >>)
              \o (IF ~ct.ok
                  THEN <<"trade_limit_reached">> ELSE << >>)]

\* _generate_reasoning: the rationale as the sequence of its reasons, the
\* manager after the can_trade call of line 158, and what that call read.
generate_reasoning(rm, now, opp, should_trade, final_confidence, risk_score) ==
    IF should_trade
    THEN [rm |-> rm, compared |-> << >>,
          reasons |-> <<"confidence", "expected_value", "price_advantage">>]
    ELSE LET ct == can_trade(rm, now)
         IN [rm |-> ct.rm, compared |-> <<ct.read>>,
             reasons |->
                 (IF final_confidence < MIN_CONFIDENCE_THRESHOLD * 100
                  THEN <<"insufficient_confidence">> ELSE << >>)
              \o (IF opp.expected_value <= 5
                  THEN <<"expected_value_too_small">> ELSE << >>)
              \o (IF risk_score > 50
                  THEN <<"risk_score_too_high">> ELSE << >>)
              \o (IF ~ct.ok
                  THEN <<"trade_limit_reached">> ELSE << >>)]

passes_checks_NoRiskCheck(opp, final_confidence, position_size, risk_score) ==
    /\ final_confidence >= MIN_CONFIDENCE_THRESHOLD * 100
    /\ position_size > 0
    /\ opp.expected_value > 5

\* The four conditions of should_trade that precede `and self.can_trade()`.
passes_checks(opp, final_confidence, position_size, risk_score) ==
    /\ final_confidence >= MIN_CONFIDENCE_THRESHOLD * 100
    /\ position_size > 0
    /\ opp.expected_value > 5
    /\ risk_score < 50

evaluate_opportunity_CountsOnAccept(rm, now, opp) ==
    LET risk_score       == calculate_risk_score(opp.volume, opp.hours_to_expiry, opp.edge)
        final_confidence == opp.confidence * (100 - risk_score)
        position_size    == calculate_position_size(opp.edge, opp.current_price)
        pre              == passes_checks(opp, final_confidence, position_size, risk_score)
        ct               == can_trade(rm, now)
        rm1              == IF pre THEN ct.rm ELSE rm
        should_trade     == pre /\ ct.ok
        gr               == generate_reasoning(rm1, now, opp, should_trade,
                                               final_confidence, risk_score)
    IN [rm       |-> IF should_trade
                     THEN [gr.rm EXCEPT !.daily_trades = @ + 1, !.open_positions = @ + 1]
                     ELSE gr.rm,
        compared |-> (IF pre THEN <<ct.read>> ELSE << >>) \o gr.compared,
        result   |-> [should_trade     |-> should_trade,
                      position_size    |-> position_size,
                      final_confidence |-> final_confidence,
                      risk_score       |-> risk_score,
                      reasoning        |-> gr.reasons]]

\* evaluate_opportunity: `and` evaluates self.can_trade() only when the four
\* conditions before it hold.
evaluate_opportunity(rm, now, opp) ==
    LET risk_score       == calculate_risk_score(opp.volume, opp.hours_to_expiry, opp.edge)
        final_confidence == opp.confidence * (100 - risk_score)
        position_size    == calculate_position_size(opp.edge, opp.current_price)
        pre              == passes_checks(opp, final_confidence, position_size, risk_score)
        ct               == can_trade(rm, now)
        rm1              == IF pre THEN ct.rm ELSE rm
        should_trade     == pre /\ ct.ok
        gr               == generate_reasoning(rm1, now, opp, should_trade,
                                               final_confidence, risk_score)
    IN [rm       |-> gr.rm,
        compared |-> (IF pre THEN <<ct.read>> ELSE << >>) \o gr.compared,
        result   |-> [should_trade     |-> should_trade,
                      position_size    |-> position_size,
                      final_confidence |-> final_confidence,
                      risk_score       |-> risk_score,
                      reasoning        |-> gr.reasons]]

record_trade_DailyOnly(rm) ==
    [rm EXCEPT !.daily_trades = @ + 1]

record_trade(rm) ==
    [rm EXCEPT !.daily_trades = @ + 1, !.open_positions = @ + 1]

close_position_Unguarded(rm) ==
    [rm EXCEPT !.open_positions = @ - 1]

close_position(rm) ==
    IF rm.open_positions > 0
    THEN [rm EXCEPT !.open_positions = @ - 1]
    ELSE rm

(***************************************************************************)
(* The RiskManager under any sequence of calls.                            *)
(***************************************************************************)
RM == [daily_trades |-> daily_trades, last_reset |-> last_reset,
       open_positions |-> open_positions]

SetRM(rm) ==
    /\ daily_trades' = rm.daily_trades
    /\ last_reset' = rm.last_reset
    /\ open_positions' = rm.open_positions

\* The opportunity dicts evaluate_opportunity is called with.
Confidences == {50, 100, 200}
Edges == {5, 20}
Prices == {50, 100}
ExpectedValues == {5, 25}
Volumes == {5000, 60000}
HoursToExpiry == {None, Some(10)}

OpportunityDicts ==
    [confidence : Confidences, edge : Edges, current_price : Prices,
     expected_value : ExpectedValues, volume : Volumes,
     hours_to_expiry : HoursToExpiry]

\* PolymarketAgent.__init__ and RiskManager.__init__
Init ==
    /\ mock_trading \in BOOLEAN
    /\ pc = "idle"
    /\ strategy_results = << >>
    /\ opportunities = << >>
    /\ i = 0
    /\ today = 0
    /\ daily_trades = 0
    /\ last_reset = 0
    /\ open_positions = 0
    /\ op = "init"
    /\ opportunity = NoOpportunity
    /\ evaluation = NoEvaluation
    /\ compared = << >>
    /\ rolled = FALSE
    /\ args = NoArgs
    /\ ret = Return(0)

InitRM == Init /\ mock_trading

\* Midnight passes.
DayRollover ==
    /\ today < MaxDay
    /\ today' = today + 1
    /\ op' = "rollover"
    /\ UNCHANGED <<daily_trades, last_reset, open_positions, opportunity,
                   evaluation, compared, rolled, args, ret, loopVars>>

EvaluateOpportunity ==
    \E opp \in OpportunityDicts :
        LET e == evaluate_opportunity(RM, today, opp)
        IN /\ SetRM(e.rm)
           /\ opportunity' = opp
           /\ evaluation' = e.result
           /\ compared' = e.compared
           /\ rolled' = (today > last_reset)
           /\ op' = "evaluate"
           /\ UNCHANGED <<today, args, ret, loopVars>>

\* record_trade called by any client; the model stops counting one past the limits.
RecordTrade ==
    /\ daily_trades <= MAX_DAILY_TRADES
    /\ open_positions <= MAX_OPEN_POSITIONS
    /\ SetRM(record_trade(RM))
    /\ op' = "record"
    /\ opportunity' = NoOpportunity
    /\ evaluation' = NoEvaluation
    /\ compared' = << >>
    /\ rolled' = FALSE
    /\ UNCHANGED <<today, args, ret, loopVars>>

\* close_position: nothing in the agent calls it; a client does, between two
\* iterations of the decision loop.
ClosePosition ==
    /\ pc = "idle"
    /\ SetRM(close_position(RM))
    /\ op' = "close"
    /\ opportunity' = NoOpportunity
    /\ evaluation' = NoEvaluation
    /\ compared' = << >>
    /\ rolled' = FALSE
    /\ UNCHANGED <<today, args, ret, loopVars>>

NextRM == DayRollover \/ EvaluateOpportunity \/ RecordTrade \/ ClosePosition

SpecRM == InitRM /\ [][NextRM]_vars

(***************************************************************************)
(* Claims about the RiskManager (checked under SpecRM).                    *)
(***************************************************************************)
\* C1: evaluate_opportunity returns should_trade = true exactly when all six
\* conditions hold in the call: final_confidence >= MIN_CONFIDENCE_THRESHOLD,
\* position_size > 0, expected_value > 5, risk_score < 0.5,
\* daily_trade_count < MAX_DAILY_TRADES and open_position_count <
\* MAX_OPEN_POSITIONS, with final_confidence = confidence * (1 - risk_score).
\* The counters are the ones the call compares and leaves behind: the call
\* changes them only by its day-rollover reset, which precedes the comparison.
C1_ShouldTradeIffSixConditions ==
    op = "evaluate" =>
        /\ evaluation.final_confidence
               = opportunity.confidence * (100 - evaluation.risk_score)
        /\ evaluation.should_trade <=>
               /\ evaluation.final_confidence >= MIN_CONFIDENCE_THRESHOLD * 100
               /\ evaluation.position_size > 0
               /\ opportunity.expected_value > 5
               /\ evaluation.risk_score < 50
               /\ daily_trades < MAX_DAILY_TRADES
               /\ open_positions < MAX_OPEN_POSITIONS

\* An evaluation that accepted, one trade short of the daily limit.
C1_Witness ==
    /\ op = "evaluate"
    /\ evaluation.should_trade
    /\ daily_trades = MAX_DAILY_TRADES - 1

\* C2: every call of evaluate_opportunity that observes a date later than
\* last_reset sets daily_trades to 0 and last_reset to that date before any
\* daily-limit comparison reads the counter and before it returns, whatever
\* the opportunity is.
C2_ResetBeforeLimitCheck ==
    [][(op' = "evaluate" /\ today > last_reset) =>
          /\ daily_trades' = 0
          /\ last_reset' = today
          /\ compared' # << >>
          /\ \A k \in DOMAIN compared' : compared'[k] = 0]_vars

\* A call on a new day, with trades counted the day before, for an opportunity
\* that fails the confidence check, so that should_trade never calls can_trade.
C2_Witness ==
    /\ op = "evaluate"
    /\ rolled
    /\ open_positions > 0
    /\ evaluation.final_confidence < MIN_CONFIDENCE_THRESHOLD * 100
    /\ daily_trades = 0
    /\ last_reset = today

\* C3: the counters are never negative, and close_position leaves
\* open_positions at 0 when it is 0 and otherwise takes exactly 1 from it.
C3_CountersNeverNegative ==
    /\ [](daily_trades >= 0 /\ open_positions >= 0)
    /\ [][op' = "close" =>
            open_positions' = IF open_positions = 0 THEN 0
                              ELSE open_positions - 1]_vars

\* close_position called with no open position.
C3_Witness ==
    /\ op = "close"
    /\ open_positions = 0
    /\ daily_trades > 0

(***************************************************************************)
(* The helpers as pure functions: the arguments are drawn at the start and *)
(* one call applies the function to them.                                  *)
(***************************************************************************)
(* Claims about the rationale of an evaluation (checked under SpecRM).     *)
(***************************************************************************)
\* The reasons of the rationale evaluate_opportunity last returned.
Reasons == {evaluation.reasoning[j] : j \in DOMAIN evaluation.reasoning}

\* C15: whenever evaluate_opportunity rejects an opportunity, the rationale
\* names every condition of the trade decision that failed (insufficient
\* confidence, zero position size, expected value not above 5, risk score not
\* below 0.5, trade or position limit reached), and is never empty.
C15_RejectionNamesEveryFailedCondition ==
    (op = "evaluate" /\ ~evaluation.should_trade) =>
        /\ evaluation.reasoning # << >>
        /\ evaluation.final_confidence < MIN_CONFIDENCE_THRESHOLD * 100
              => "insufficient_confidence" \in Reasons
        /\ evaluation.position_size = 0
              => "zero_position_size" \in Reasons
        /\ opportunity.expected_value <= 5
              => "expected_value_too_small" \in Reasons
        /\ evaluation.risk_score >= 50
              => "risk_score_too_high" \in Reasons
        /\ (daily_trades >= MAX_DAILY_TRADES \/ open_positions >= MAX_OPEN_POSITIONS)
              => "trade_limit_reached" \in Reasons

\* C16: whenever final_confidence < MIN_CONFIDENCE_THRESHOLD,
\* evaluate_opportunity returns should_trade = false and its rationale holds
\* the insufficient-confidence reason, whatever the other fields of the
\* opportunity and the counters are.
C16_LowConfidenceRejectedWithReason ==
    (op = "evaluate"
        /\ evaluation.final_confidence < MIN_CONFIDENCE_THRESHOLD * 100)
        => /\ ~evaluation.should_trade
           /\ "insufficient_confidence" \in Reasons

\* A final confidence of 0.5 under the threshold of 0.7, everything else in
\* favour of the trade: rejected for insufficient confidence alone.
C16_Witness ==
    /\ op = "evaluate"
    /\ evaluation.final_confidence = 5000
    /\ evaluation.position_size > 0
    /\ opportunity.expected_value > 5
    /\ daily_trades < MAX_DAILY_TRADES
    /\ open_positions < MAX_OPEN_POSITIONS
    /\ ~evaluation.should_trade
    /\ evaluation.reasoning = <<"insufficient_confidence">>

\* C22: between two day-rollover resets daily_trades never decreases: an
\* evaluation resets it only when it observes a date later than last_reset,
\* so no later evaluation on that date resets it again; its only other
\* change is + 1 by record_trade; and last_reset never moves backwards.
C22_DailyCountResetOncePerDate ==
    [][/\ last_reset' >= last_reset
       /\ daily_trades' # daily_trades =>
             \/ /\ op' = "evaluate"
                /\ today > last_reset
                /\ daily_trades' = 0
                /\ last_reset' = today
             \/ /\ op' = "record"
                /\ daily_trades' = daily_trades + 1
                /\ last_reset' = last_reset
       /\ (op' = "evaluate" /\ today <= last_reset) =>
             /\ daily_trades' = daily_trades
             /\ last_reset' = last_reset]_vars

\* After a reset on a later date and a recorded trade, an evaluation on the
\* same date has left the count as it was.
C22_Witness ==
    /\ op = "evaluate"
    /\ ~rolled
    /\ last_reset > 0
    /\ last_reset = today
    /\ daily_trades > 0

(***************************************************************************)
KellyEdges == {-10, 0, 5, 20, 100}
KellyPrices == {0, 50, 80, 99, 100, 120}
KellyMaxPositions == {0, 1, 200}     \* half units: 0, 0.5 and 100
KellyRiskLimits == {0, 25, 100}      \* half units: 0, 12.5 and 50

InitHelper(argset) ==
    /\ today = 0
    /\ daily_trades = 0
    /\ last_reset = 0
    /\ open_positions = 0
    /\ op = "init"
    /\ opportunity = NoOpportunity
    /\ evaluation = NoEvaluation
    /\ compared = << >>
    /\ rolled = FALSE
    /\ args \in argset
    /\ ret = Return(0)
    /\ mock_trading = TRUE
    /\ pc = "idle"
    /\ strategy_results = << >>
    /\ opportunities = << >>
    /\ i = 0

InitKelly ==
    InitHelper([edge : KellyEdges, current_price : KellyPrices,
                max_position : KellyMaxPositions, risk_limit : KellyRiskLimits])

CallKellySize ==
    /\ op = "init"
    /\ ret' = calculate_kelly_size(args.edge, args.current_price,
                                   args.max_position, args.risk_limit)
    /\ op' = "calculate_kelly_size"
    /\ UNCHANGED <<today, daily_trades, last_reset, open_positions, opportunity,
                   evaluation, compared, rolled, args, loopVars>>

SpecKelly == InitKelly /\ [][CallKellySize]_vars

RiskVolumes == {0, 5000, 49999, 50000, 60000}
RiskHours == {0, 1, 10, 23, 24, 48}
RiskEdges == {0, 5, 9, 10, 20}

InitRisk ==
    InitHelper([volume : RiskVolumes,
                hours_to_expiry : {None} \cup {Some(h) : h \in RiskHours},
                edge : RiskEdges])

CallRiskScore ==
    /\ op = "init"
    /\ ret' = Return(calculate_risk_score(args.volume, args.hours_to_expiry, args.edge))
    /\ op' = "calculate_risk_score"
    /\ UNCHANGED <<today, daily_trades, last_reset, open_positions, opportunity,
                   evaluation, compared, rolled, args, loopVars>>

SpecRisk == InitRisk /\ [][CallRiskScore]_vars

(***************************************************************************)
(* Claims about the helpers.                                               *)
(***************************************************************************)
\* C9 (under SpecKelly): calculate_kelly_size never raises; it returns 0
\* whenever current_price >= 1.0; and for edge >= 0, price in [0,1),
\* max_position >= 0 and risk_limit >= 0 its result r is a whole amount with
\* 0 <= r <= risk_limit and r = floor(min(edge / (1 - price) *
\* conservative_factor * max_position, risk_limit)), that is
\* r <= min(...) < r + 1.
C9_KellyFailsClosed ==
    op = "calculate_kelly_size" =>
        LET r   == ret.value
            num == args.edge * conservative_factor * args.max_position
            den == 100 * 2 * (100 - args.current_price)
        IN /\ ~ret.raised
           /\ args.current_price >= 100 => r = 0
           /\ ( /\ args.edge >= 0
                /\ args.current_price >= 0 /\ args.current_price < 100
                /\ args.max_position >= 0
                /\ args.risk_limit >= 0 ) =>
                  /\ r \in Nat
                  /\ 2 * r <= args.risk_limit
                  /\ r * den <= num
                  /\ (r + 1) * den > num \/ 2 * (r + 1) > args.risk_limit

\* A call whose raw size exceeds a risk limit of 12.5: the result is 12.
C9_Witness ==
    /\ op = "calculate_kelly_size"
    /\ args.current_price < 100
    /\ args.risk_limit = 25
    /\ ret = Return(12)

\* C10 (under SpecRisk): calculate_risk_score returns a value in [0,1] and,
\* the other two inputs fixed, a lower volume, a lower hours_to_expiry (over
\* all hours >= 0, 0 included) or a lower edge never gives a lower score.
C10_RiskScoreMonotone ==
    op = "calculate_risk_score" =>
        /\ ret.value >= 0 /\ ret.value <= 100
        /\ \A v \in RiskVolumes : v <= args.volume =>
              calculate_risk_score(v, args.hours_to_expiry, args.edge) >= ret.value
        /\ \A h \in args.hours_to_expiry : \A h2 \in RiskHours : h2 <= h =>
              calculate_risk_score(args.volume, Some(h2), args.edge) >= ret.value
        /\ \A e \in RiskEdges : e <= args.edge =>
              calculate_risk_score(args.volume, args.hours_to_expiry, e) >= ret.value

(***************************************************************************)
(* strategies/base.py: MarketOpportunity.  question, news_signals and the  *)
(* strategy's own risk_score are carried by the object but read by no      *)
(* decision of the aggregator, the RiskManager or the loop (the manager    *)
(* computes its own risk score); they are left out.                        *)
(***************************************************************************)
abs(x) == IF x >= 0 THEN x ELSE -x

MarketOpportunity_SignedEdge(market_id, outcome, current_price, predicted_probability, confidence, expected_value, volume, hours_to_expiry) ==
    [market_id |-> market_id, outcome |-> outcome,
     current_price |-> current_price,
     predicted_probability |-> predicted_probability,
     confidence |-> confidence, expected_value |-> expected_value,
     volume |-> volume, hours_to_expiry |-> hours_to_expiry,
     edge |-> predicted_probability - current_price]

\* MarketOpportunity.__init__
MarketOpportunity(market_id, outcome, current_price, predicted_probability, confidence, expected_value, volume, hours_to_expiry) ==
    [market_id |-> market_id, outcome |-> outcome,
     current_price |-> current_price,
     predicted_probability |-> predicted_probability,
     confidence |-> confidence, expected_value |-> expected_value,
     volume |-> volume, hours_to_expiry |-> hours_to_expiry,
     edge |-> abs(predicted_probability - current_price)]

\* MarketOpportunity.to_dict
to_dict(o) ==
    [market_id |-> o.market_id, outcome |-> o.outcome,
     current_price |-> o.current_price,
     predicted_probability |-> o.predicted_probability,
     confidence |-> o.confidence, expected_value |-> o.expected_value,
     volume |-> o.volume, hours_to_expiry |-> o.hours_to_expiry,
     edge |-> o.edge]

(***************************************************************************)
(* main.py: scan_and_trade, the aggregation.  An opportunity object is     *)
(* known by its position in all_opportunities; the dict                    *)
(* unique_opportunities is the sequence of the positions it holds, in the  *)
(* order its keys were first inserted (the order of dict.values()).        *)
(***************************************************************************)
\* The number of strategies that are active, and the longest all_opportunities.
NumStrategies == 2
MaxResults == 3

RECURSIVE extend_all(_, _)
\* all_opportunities after the first n strategies: all_opportunities.extend(...)
extend_all(results, n) ==
    IF n = 0 THEN << >> ELSE extend_all(results, n - 1) \o results[n]

all_opportunities(results) == extend_all(results, Len(results))

dedup_step_KeepFirst(all, unique, n) ==
    IF \A k \in DOMAIN unique : all[unique[k]].market_id # all[n].market_id
    THEN Append(unique, n)
    ELSE unique

dedup_step_KeepLast(all, unique, n) ==
    IF \A k \in DOMAIN unique : all[unique[k]].market_id # all[n].market_id
    THEN Append(unique, n)
    ELSE LET k == CHOOSE k \in DOMAIN unique :
                      all[unique[k]].market_id = all[n].market_id
         IN [unique EXCEPT ![k] = n]

dedup_step_GreaterOrEqual(all, unique, n) ==
    IF \A k \in DOMAIN unique : all[unique[k]].market_id # all[n].market_id
    THEN Append(unique, n)
    ELSE LET k == CHOOSE k \in DOMAIN unique :
                      all[unique[k]].market_id = all[n].market_id
         IN IF all[n].expected_value >= all[unique[k]].expected_value
            THEN [unique EXCEPT ![k] = n]
            ELSE unique

\* The body of `for opp in all_opportunities` for opp = all[n]: a new key is
\* inserted at the end; a key already there keeps its place and gets the new
\* object only when its expected_value is strictly greater.
dedup_step(all, unique, n) ==
    IF \A k \in DOMAIN unique : all[unique[k]].market_id # all[n].market_id
    THEN Append(unique, n)
    ELSE LET k == CHOOSE k \in DOMAIN unique :
                      all[unique[k]].market_id = all[n].market_id
         IN IF all[n].expected_value > all[unique[k]].expected_value
            THEN [unique EXCEPT ![k] = n]
            ELSE unique

RECURSIVE unique_opportunities(_, _)
\* unique_opportunities after the first n objects of all.
unique_opportunities(all, n) ==
    IF n = 0 THEN << >>
    ELSE dedup_step(all, unique_opportunities(all, n - 1), n)

sort_insert_BeforeEqual(all, sorted, x) ==
    LET k == Cardinality({j \in DOMAIN sorted :
                 all[sorted[j]].expected_value > all[x].expected_value})
    IN SubSeq(sorted, 1, k) \o <<x>> \o SubSeq(sorted, k + 1, Len(sorted))

\* list.sort(key=expected_value, reverse=True) is stable: an object goes
\* after every object whose expected_value is greater or equal.
sort_insert(all, sorted, x) ==
    LET k == Cardinality({j \in DOMAIN sorted :
                 all[sorted[j]].expected_value >= all[x].expected_value})
    IN SubSeq(sorted, 1, k) \o <<x>> \o SubSeq(sorted, k + 1, Len(sorted))

RECURSIVE sort_by_expected_value(_, _, _)
\* The first n objects of list, sorted.
sort_by_expected_value(all, list, n) ==
    IF n = 0 THEN << >>
    ELSE sort_insert(all, sort_by_expected_value(all, list, n - 1), list[n])

\* The positions in all of the objects of the final list, in its order.
ranked(all) ==
    LET unique == unique_opportunities(all, Len(all))
    IN sort_by_expected_value(all, unique, Len(unique))

\* The final list `opportunities` of scan_and_trade.
aggregate(all) ==
    LET r == ranked(all) IN [k \in DOMAIN r |-> all[r[k]]]

(***************************************************************************)
(* The aggregation as a function of the strategies' results.               *)
(***************************************************************************)
MarketIds == {"m1", "m2"}
Outcomes == {"YES", "NO"}

AggUniverse ==
    {MarketOpportunity(m, o, 10, 30, 80, ev, 60000, None) :
        m \in MarketIds, o \in Outcomes, ev \in {10, 25}}

BoundedSeq(S, n) == UNION {[1..k -> S] : k \in 0..n}

\* all cut into NumStrategies consecutive lists at the places cuts.
Split(all, cuts) ==
    [s \in 1..NumStrategies |->
        SubSeq(all,
               (IF s = 1 THEN 0 ELSE cuts[s - 1]) + 1,
               IF s = NumStrategies THEN Len(all) ELSE cuts[s])]

\* The places at which a list of length n is cut into NumStrategies lists.
Cuts(n) ==
    {c \in [1..(NumStrategies - 1) -> 0..n] :
        \A s \in DOMAIN c : s > 1 => c[s - 1] <= c[s]}

StrategyResults(universe) ==
    UNION {{Split(all, cuts) : cuts \in Cuts(Len(all))} :
              all \in BoundedSeq(universe, MaxResults)}

InitAgg ==
    /\ mock_trading = TRUE
    /\ pc = "aggregate"
    /\ strategy_results \in StrategyResults(AggUniverse)
    /\ opportunities = << >>
    /\ i = 0
    /\ today = 0
    /\ daily_trades = 0
    /\ last_reset = 0
    /\ open_positions = 0
    /\ op = "init"
    /\ opportunity = NoOpportunity
    /\ evaluation = NoEvaluation
    /\ compared = << >>
    /\ rolled = FALSE
    /\ args = NoArgs
    /\ ret = Return(0)

Aggregate ==
    /\ pc = "aggregate"
    /\ opportunities' = aggregate(all_opportunities(strategy_results))
    /\ pc' = "ranked"
    /\ op' = "aggregate"
    /\ UNCHANGED <<today, daily_trades, last_reset, open_positions, opportunity,
                   evaluation, compared, rolled, args, ret, mock_trading,
                   strategy_results, i>>

SpecAgg == InitAgg /\ [][Aggregate]_vars

(***************************************************************************)
(* Claims about the aggregation (checked under SpecAgg).                   *)
(***************************************************************************)
\* The concatenated strategy results of the state.
Concatenated == all_opportunities(strategy_results)

\* The positions in all of the opportunities of market m.
OfMarket(all, m) == {k \in DOMAIN all : all[k].market_id = m}

\* The positions in all whose expected_value is the highest of market m.
Highest(all, m) ==
    {k \in OfMarket(all, m) :
        \A l \in OfMarket(all, m) : all[l].expected_value <= all[k].expected_value}

Least(S) == CHOOSE k \in S : \A l \in S : k <= l
Greatest(S) == CHOOSE k \in S : \A l \in S : l <= k

\* C5: after deduplication every market_id of the concatenated results has
\* exactly one opportunity in the output, whose expected_value is the maximum
\* among the input opportunities of that market_id, and the output holds
\* nothing else.
C5_DedupKeepsMaxPerMarket ==
    pc = "ranked" =>
        LET all == Concatenated
        IN /\ \A m \in {all[k].market_id : k \in DOMAIN all} :
                 /\ Cardinality(OfMarket(opportunities, m)) = 1
                 /\ \A a \in OfMarket(opportunities, m) : \A k \in OfMarket(all, m) :
                       all[k].expected_value <= opportunities[a].expected_value
           /\ \A a \in DOMAIN opportunities : \E k \in DOMAIN all :
                 all[k] = opportunities[a]

\* Two opportunities of one market, the second with the higher expected_value
\* (10, then 25), have been deduplicated.
C5_Witness ==
    /\ pc = "ranked"
    /\ \E k, l \in DOMAIN Concatenated :
          /\ k < l
          /\ Concatenated[k].market_id = Concatenated[l].market_id
          /\ Concatenated[k].expected_value = 10
          /\ Concatenated[l].expected_value = 25

SortedDescending(list) ==
    \A a, b \in DOMAIN list :
        a < b => list[a].expected_value >= list[b].expected_value

\* C6 as claimed: the final list is sorted by expected_value, non-increasing,
\* and two of its opportunities with equal expected_value stand in the order in
\* which they were inserted into the concatenated results.
C6_TiesInInsertionOrder ==
    pc = "ranked" =>
        /\ SortedDescending(opportunities)
        /\ \A a, b \in DOMAIN opportunities :
              (a < b /\ opportunities[a].expected_value = opportunities[b].expected_value)
              => \E k, l \in DOMAIN Concatenated :
                    /\ k < l
                    /\ Concatenated[k] = opportunities[a]
                    /\ Concatenated[l] = opportunities[b]

\* C6 as amended: the final list is sorted by expected_value, non-increasing,
\* and two of its opportunities with equal expected_value stand in the order in
\* which their market_ids first occur in the concatenated results.
C6_TiesInFirstOccurrenceOrder ==
    pc = "ranked" =>
        /\ SortedDescending(opportunities)
        /\ \A a, b \in DOMAIN opportunities :
              (a < b /\ opportunities[a].expected_value = opportunities[b].expected_value)
              => Least(OfMarket(Concatenated, opportunities[a].market_id))
                    < Least(OfMarket(Concatenated, opportunities[b].market_id))

\* Two opportunities tie in the final list, and the first of them was inserted
\* after the second: it replaced an earlier opportunity of its market.
C6_Witness ==
    /\ pc = "ranked"
    /\ \E a, b \in DOMAIN opportunities :
          /\ a < b
          /\ opportunities[a].expected_value = opportunities[b].expected_value
          /\ \A k, l \in DOMAIN Concatenated :
                (Concatenated[k] = opportunities[a] /\ Concatenated[l] = opportunities[b])
                => l < k

StrategyOrders == {p \in [1..NumStrategies -> 1..NumStrategies] :
                    \A s, t \in 1..NumStrategies : p[s] = p[t] => s = t}

Permuted(results, p) == [s \in 1..NumStrategies |-> results[p[s]]]

\* C7 as claimed: the final list is the same for every order in which the
\* strategies' results are concatenated.
C7_OrderOfStrategiesIrrelevant ==
    pc = "ranked" =>
        \A p \in StrategyOrders :
            aggregate(all_opportunities(Permuted(strategy_results, p))) = opportunities

\* No two opportunities that have the highest expected_value of their market
\* have the same expected_value: no market has its highest value twice, and no
\* two markets have the same highest value.
NoTies(all) ==
    \A k, l \in DOMAIN all :
        ( /\ k # l
          /\ k \in Highest(all, all[k].market_id)
          /\ l \in Highest(all, all[l].market_id) )
        => all[k].expected_value # all[l].expected_value

\* C7 as amended: when no two opportunities that have the highest
\* expected_value of their market have the same expected_value, the final list
\* is the same for every order in which the strategies' results are concatenated.
C7_OrderIrrelevantWithoutTies ==
    (pc = "ranked" /\ NoTies(Concatenated)) =>
        \A p \in StrategyOrders :
            aggregate(all_opportunities(Permuted(strategy_results, p))) = opportunities

\* Two strategies propose the same market with different expected values,
\* a second market is proposed too, and there is no tie.
C7_Witness ==
    /\ pc = "ranked"
    /\ NoTies(Concatenated)
    /\ Len(opportunities) = 2
    /\ \E k \in DOMAIN strategy_results[1] : \E l \in DOMAIN strategy_results[2] :
          /\ strategy_results[1][k].market_id = strategy_results[2][l].market_id
          /\ strategy_results[1][k].expected_value < strategy_results[2][l].expected_value

\* The opportunity the final list holds for market m.
Kept(m) == opportunities[CHOOSE a \in DOMAIN opportunities :
                            opportunities[a].market_id = m]

\* C8 as claimed: when several opportunities of a market have its highest
\* expected_value, deduplication keeps the one that occurs last in the
\* concatenated results, whatever their outcome labels.
C8_LastHighestWins ==
    pc = "ranked" =>
        \A m \in MarketIds :
            Cardinality(Highest(Concatenated, m)) >= 2
            => Kept(m) = Concatenated[Greatest(Highest(Concatenated, m))]

\* C8 as amended: when several opportunities of a market have its highest
\* expected_value, deduplication keeps the one that occurs first in the
\* concatenated results, whatever their outcome labels.
C8_FirstHighestWins ==
    pc = "ranked" =>
        \A m \in MarketIds :
            Cardinality(Highest(Concatenated, m)) >= 2
            => Kept(m) = Concatenated[Least(Highest(Concatenated, m))]

\* A market's highest expected_value is proposed for YES and then for NO.
C8_Witness ==
    /\ pc = "ranked"
    /\ \E m \in MarketIds : \E k, l \in Highest(Concatenated, m) :
          /\ k < l
          /\ Concatenated[k].outcome = "YES"
          /\ Concatenated[l].outcome = "NO"

(***************************************************************************)
(* main.py: the decision loop.  pc is "idle" between two iterations,       *)
(* "evaluate" before the risk evaluation of candidate i and "execute"      *)
(* between an evaluation that accepted and execute_trade.                  *)
(***************************************************************************)
\* opportunities[:10]
TopN == 10

\* The most opportunities the strategies propose in one iteration of the loop.
MaxProposals == 2

candidates(list) == SubSeq(list, 1, IF Len(list) < TopN THEN Len(list) ELSE TopN)

\* execute_trade: in mock mode shares = position_size / current_price raises
\* ZeroDivisionError for a price of 0 and the trade otherwise succeeds; real
\* trading is not implemented and reports failure.
execute_trade(o, position_size, mock) ==
    IF mock
    THEN IF o.current_price = 0 THEN Raise ELSE Return(TRUE)
    ELSE Return(FALSE)

\* What the strategies propose in the loop: cheap YES outcomes of two markets,
\* some of them free (price 0), some with an expected_value that is too small.
LoopUniverse ==
    {MarketOpportunity(m, "YES", p, 30, 100, ev, 60000, None) :
        m \in MarketIds, p \in {0, 10}, ev \in {5, 25}}

\* The loop moves to the next candidate, or the iteration ends.
Advance ==
    IF i < Len(candidates(opportunities))
    THEN /\ pc' = "evaluate"
         /\ i' = i + 1
         /\ UNCHANGED opportunities
    ELSE /\ pc' = "idle"
         /\ i' = 0
         /\ opportunities' = << >>

\* scan_and_trade up to the call of evaluate_and_execute.  The aggregation
\* reads the strategies' results only through their concatenation, which is
\* what this step draws.
ScanAndTrade ==
    /\ pc = "idle"
    /\ \E all \in BoundedSeq(LoopUniverse, MaxProposals) :
          LET list == aggregate(all)
          IN IF list = << >>
             THEN UNCHANGED <<pc, opportunities, i>>
             ELSE /\ pc' = "evaluate"
                  /\ opportunities' = list
                  /\ i' = 1
    /\ op' = "scan"
    /\ opportunity' = NoOpportunity
    /\ evaluation' = NoEvaluation
    /\ compared' = << >>
    /\ rolled' = FALSE
    /\ UNCHANGED <<today, daily_trades, last_reset, open_positions, args, ret,
                   mock_trading, strategy_results>>

\* evaluate_and_execute, the loop body up to `if evaluation["should_trade"]`.
EvaluateCandidate ==
    /\ pc = "evaluate"
    /\ LET o == candidates(opportunities)[i]
           e == evaluate_opportunity(RM, today, to_dict(o))
       IN /\ SetRM(e.rm)
          /\ opportunity' = to_dict(o)
          /\ evaluation' = e.result
          /\ compared' = e.compared
          /\ rolled' = (today > last_reset)
          /\ IF e.result.should_trade
             THEN /\ pc' = "execute"
                  /\ UNCHANGED <<opportunities, i>>
             ELSE Advance
    /\ op' = "evaluate"
    /\ UNCHANGED <<today, args, ret, mock_trading, strategy_results>>

\* evaluate_and_execute, the accepting branch: execute_trade and, when it
\* reports success, record_trade.  An exception leaves evaluate_and_execute
\* and is caught and logged by scan_and_trade: the iteration is over.
ExecuteTrade ==
    /\ pc = "execute"
    /\ LET o == candidates(opportunities)[i]
           success == execute_trade(o, evaluation.position_size, mock_trading)
       IN IF success.raised
          THEN /\ op' = "execute_trade_raised"
               /\ pc' = "idle"
               /\ i' = 0
               /\ opportunities' = << >>
               /\ UNCHANGED <<daily_trades, last_reset, open_positions>>
          ELSE IF success.value
          THEN /\ op' = "execute_trade_succeeded"
               /\ SetRM(record_trade(RM))
               /\ Advance
          ELSE /\ op' = "execute_trade_failed"
               /\ UNCHANGED <<daily_trades, last_reset, open_positions>>
               /\ Advance
    /\ UNCHANGED <<today, opportunity, evaluation, compared, rolled, args, ret,
                   mock_trading, strategy_results>>

Next ==
    \/ ScanAndTrade
    \/ EvaluateCandidate
    \/ ExecuteTrade
    \/ DayRollover
    \/ ClosePosition

Spec == Init /\ [][Next]_vars

(***************************************************************************)
(* Claims about the decision loop (checked under Spec).                    *)
(***************************************************************************)
\* C4 as claimed: whenever the RiskManager accepts a candidate, daily_trades
\* and open_positions are each incremented by exactly 1 before the next
\* candidate is evaluated, that is by the step that takes the loop on from
\* the accepted candidate.
C4_AcceptedIsCounted ==
    [][(pc = "execute" /\ pc' # "execute") =>
          /\ daily_trades' = daily_trades + 1
          /\ open_positions' = open_positions + 1]_vars

\* C4 as amended: whenever the RiskManager accepts a candidate and
\* execute_trade then reports success, daily_trades and open_positions are each
\* incremented by exactly 1 before the next candidate is evaluated; when
\* execute_trade reports failure or raises, both are left as they were.
C4_AcceptedAndExecutedIsCounted ==
    [][(pc = "execute" /\ pc' # "execute") =>
          IF mock_trading /\ opportunity.current_price # 0
          THEN /\ op' = "execute_trade_succeeded"
               /\ daily_trades' = daily_trades + 1
               /\ open_positions' = open_positions + 1
          ELSE /\ op' # "execute_trade_succeeded"
               /\ daily_trades' = daily_trades
               /\ open_positions' = open_positions]_vars

\* An accepted first candidate has been executed and counted, and the second
\* candidate is about to be evaluated.
C4_Witness ==
    /\ op = "execute_trade_succeeded"
    /\ pc = "evaluate"
    /\ i = 2
    /\ daily_trades = 1
    /\ open_positions = 1

\* C23: evaluate_opportunity never increments daily_trades or open_positions:
\* its only state change is the day-rollover reset, so a rejecting evaluation,
\* or a loop step aborted before record_trade, leaves both counters as they
\* were; they are incremented only by record_trade, which the loop calls only
\* after a should_trade = true evaluation and a successful execution.
C23_CountersIncrementedOnlyAfterExecution ==
    [][/\ op' = "evaluate" =>
             /\ open_positions' = open_positions
             /\ daily_trades' = (IF today > last_reset THEN 0 ELSE daily_trades)
             /\ last_reset' = (IF today > last_reset THEN today ELSE last_reset)
       /\ op' \in {"execute_trade_raised", "execute_trade_failed"} =>
             /\ open_positions' = open_positions
             /\ daily_trades' = daily_trades
       /\ (daily_trades' > daily_trades \/ open_positions' > open_positions) =>
             /\ pc = "execute"
             /\ evaluation.should_trade
             /\ op' = "execute_trade_succeeded"
             /\ daily_trades' = daily_trades + 1
             /\ open_positions' = open_positions + 1]_vars

\* An accepted candidate whose execution raised: nothing was counted.
C23_Witness ==
    /\ op = "execute_trade_raised"
    /\ evaluation.should_trade
    /\ daily_trades = 0
    /\ open_positions = 0

\* C26: with record_trade called only by the decision loop, after any
\* sequence of iterations, evaluations, day rollovers and position closes
\* daily_trades <= MAX_DAILY_TRADES and open_positions <= MAX_OPEN_POSITIONS.
C26_CountersWithinLimits ==
    /\ daily_trades <= MAX_DAILY_TRADES
    /\ open_positions <= MAX_OPEN_POSITIONS

\* Both limits reached at once.
C26_Witness ==
    /\ daily_trades = MAX_DAILY_TRADES
    /\ open_positions = MAX_OPEN_POSITIONS

(***************************************************************************)
(* The market snapshots the strategies read.  A market is a dict; a key    *)
(* that may be absent is an Optional.  Prices, thresholds and              *)
(* probabilities are in hundredths, volumes in currency units.  endDate    *)
(* is the timestamp text: whether one of the formats of                    *)
(* parse_market_end_date matches it, and the hours from now to the time it *)
(* names.  outcomes is the parsed JSON list of labels (None: key absent or *)
(* not JSON), a label being a string or NotAString, a JSON value that is   *)
(* no string.  outcomePrices and marketMakerData are the parsed price      *)
(* lists, bestBidAsk the pair of bestBid and bestAsk.                      *)
(***************************************************************************)
NotAString == "<not a string>"

\* dict.get(key, default)
get(value, default) == IF value = None THEN default ELSE CHOOSE v \in value : TRUE

\* str.upper of the labels the model uses.
upper(label) ==
    CASE label = "Yes" -> "YES"
      [] label = "No" -> "NO"
      [] label = "Up" -> "UP"
      [] label = "Down" -> "DOWN"
      [] OTHER -> label

\* json.loads(market.get("outcomes", '["Yes", "No"]')), ["Yes", "No"] on failure.
outcomes_of(market) == get(market.outcomes, <<"Yes", "No">>)

\* BaseStrategy.extract_prices
extract_prices(market) ==
    LET from_outcome_prices == get(market.outcomePrices, << >>)
        from_market_maker ==
            IF from_outcome_prices = << >>
            THEN get(market.marketMakerData, << >>)
            ELSE from_outcome_prices
        from_bid_ask ==
            IF from_market_maker = << >> /\ market.bestBidAsk # None
            THEN LET ba == get(market.bestBidAsk, <<50, 50>>)
                 IN <<(ba[1] + ba[2]) \div 2>>
            ELSE from_market_maker
    IN IF from_bid_ask = << >> THEN <<50>> ELSE from_bid_ask

\* parse_market_end_date: the datetime (here the hours until it), or None.
parse_market_end_date(end_date_str) ==
    IF end_date_str.parsable THEN Some(end_date_str.hours) ELSE None

\* hours_until_expiry of a parsed datetime.
hours_until_expiry(end_date) == end_date

\* The hours_to_expiry a strategy stores: None without a parsable endDate.
hours_to_expiry_of(market) ==
    IF market.endDate = None THEN None
    ELSE LET end_date == parse_market_end_date(get(market.endDate, None))
         IN IF end_date = None THEN None
            ELSE Some(hours_until_expiry(get(end_date, 0)))

\* The string of market.get("conditionId", "").
market_id_of(market) == get(market.conditionId, "")

\* `condition_id in open_positions` for condition_id = market.get("conditionId"):
\* an absent conditionId is None, which is no key of the dict.  The dict
\* open_positions is the sequence of its entries (condition_id, size,
\* outcome) in insertion order, no two with the same condition_id.
has_position(market, positions) ==
    \E c \in market.conditionId :
        \E j \in DOMAIN positions : positions[j].condition_id = c

\* The news signal of a question: None when get_market_signals raised, else
\* the signal, its confidence (hundredths) and the number of its articles.
has_articles(news_signal) == \E n \in news_signal : n.articles > 0

\* The outcome of analysing one outcome of a market after another: the list
\* so far, or the exception that ended the analysis.
Then(result, more) ==
    IF result.raised \/ more.raised THEN Raise
    ELSE Return(result.value \o more.value)

(***************************************************************************)
(* strategies/simple_threshold.py: the threshold-rule strategy.  config is *)
(* the strategy's config dict (buy_threshold, sell_threshold, min_edge, in *)
(* hundredths); confidence and expected_value are in thousandths.          *)
(***************************************************************************)
\* SimpleThresholdStrategy._create_opportunity
SimpleThreshold_create_opportunity(market, outcome, price, edge, news_signal, is_inverse) ==
    LET price_confidence == 50 + edge * 4
        n == get(news_signal, [signal |-> "neutral", confidence |-> 0, articles |-> 0])
        news_confidence ==
            IF \/ n.signal = "bullish" /\ outcome = "NO"
               \/ n.signal = "bearish" /\ outcome = "YES"
            THEN 100 - n.confidence
            ELSE n.confidence
        confidence ==
            IF has_articles(news_signal)
            THEN price_confidence * 6 + news_confidence * 4
            ELSE 800
        expected_value == edge * confidence
    IN MarketOpportunity(market_id_of(market), outcome, price, price + edge,
                         confidence, expected_value, get(market.volume, 0),
                         hours_to_expiry_of(market))

\* The body of the loop over the outcomes with the NO-side rule also
\* demanding a YES price strictly above sell_threshold + min_edge.
SimpleThreshold_analyze_outcome_StrictInverse(config, market, news_signal, k) ==
    LET prices == extract_prices(market)
        outcome == outcomes_of(market)[k]
    IN IF k > Len(prices) THEN Return(<< >>)
       ELSE IF outcome = NotAString THEN Raise
       ELSE LET price == prices[k]
                outcome_name == upper(outcome)
                buy == IF /\ price <= config.buy_threshold
                          /\ config.buy_threshold - price >= config.min_edge
                       THEN <<SimpleThreshold_create_opportunity(
                                market, outcome_name, price,
                                config.buy_threshold - price, news_signal, FALSE)>>
                       ELSE << >>
                no_price == 100 - price
                inverse == IF /\ outcome_name = "YES"
                              /\ price >= config.sell_threshold
                              /\ price - config.sell_threshold > config.min_edge
                              /\ no_price <= config.buy_threshold
                           THEN <<SimpleThreshold_create_opportunity(
                                    market, "NO", no_price,
                                    price - config.sell_threshold, news_signal, TRUE)>>
                           ELSE << >>
            IN Return(buy \o inverse)

\* The body of the loop over the outcomes with the buy rule comparing the
\* price strictly.
SimpleThreshold_analyze_outcome_StrictBuy(config, market, news_signal, k) ==
    LET prices == extract_prices(market)
        outcome == outcomes_of(market)[k]
    IN IF k > Len(prices) THEN Return(<< >>)
       ELSE IF outcome = NotAString THEN Raise
       ELSE LET price == prices[k]
                outcome_name == upper(outcome)
                buy == IF /\ price < config.buy_threshold
                          /\ config.buy_threshold - price > config.min_edge
                       THEN <<SimpleThreshold_create_opportunity(
                                market, outcome_name, price,
                                config.buy_threshold - price, news_signal, FALSE)>>
                       ELSE << >>
                no_price == 100 - price
                inverse == IF /\ outcome_name = "YES"
                              /\ price >= config.sell_threshold
                              /\ price - config.sell_threshold >= config.min_edge
                              /\ no_price <= config.buy_threshold
                           THEN <<SimpleThreshold_create_opportunity(
                                    market, "NO", no_price,
                                    price - config.sell_threshold, news_signal, TRUE)>>
                           ELSE << >>
            IN Return(buy \o inverse)

\* The body of the loop over the outcomes with the NO-side rule applied to
\* every outcome, whatever its label.
SimpleThreshold_analyze_outcome_AnyOutcome(config, market, news_signal, k) ==
    LET prices == extract_prices(market)
        outcome == outcomes_of(market)[k]
    IN IF k > Len(prices) THEN Return(<< >>)
       ELSE IF outcome = NotAString THEN Raise
       ELSE LET price == prices[k]
                outcome_name == upper(outcome)
                buy == IF /\ price <= config.buy_threshold
                          /\ config.buy_threshold - price >= config.min_edge
                       THEN <<SimpleThreshold_create_opportunity(
                                market, outcome_name, price,
                                config.buy_threshold - price, news_signal, FALSE)>>
                       ELSE << >>
                no_price == 100 - price
                inverse == IF /\ price >= config.sell_threshold
                              /\ price - config.sell_threshold >= config.min_edge
                              /\ no_price <= config.buy_threshold
                           THEN <<SimpleThreshold_create_opportunity(
                                    market, "NO", no_price,
                                    price - config.sell_threshold, news_signal, TRUE)>>
                           ELSE << >>
            IN Return(buy \o inverse)

\* SimpleThresholdStrategy.analyze_market, the body of the loop over the
\* outcomes: what outcome k adds to the list, or the exception of
\* outcome.upper() for a label that is no string.
SimpleThreshold_analyze_outcome(config, market, news_signal, k) ==
    LET prices == extract_prices(market)
        outcome == outcomes_of(market)[k]
    IN IF k > Len(prices) THEN Return(<< >>)
       ELSE IF outcome = NotAString THEN Raise
       ELSE LET price == prices[k]
                outcome_name == upper(outcome)
                buy == IF /\ price <= config.buy_threshold
                          /\ config.buy_threshold - price >= config.min_edge
                       THEN <<SimpleThreshold_create_opportunity(
                                market, outcome_name, price,
                                config.buy_threshold - price, news_signal, FALSE)>>
                       ELSE << >>
                no_price == 100 - price
                inverse == IF /\ outcome_name = "YES"
                              /\ price >= config.sell_threshold
                              /\ price - config.sell_threshold >= config.min_edge
                              /\ no_price <= config.buy_threshold
                           THEN <<SimpleThreshold_create_opportunity(
                                    market, "NO", no_price,
                                    price - config.sell_threshold, news_signal, TRUE)>>
                           ELSE << >>
            IN Return(buy \o inverse)

RECURSIVE SimpleThreshold_analyze_outcomes(_, _, _, _)
SimpleThreshold_analyze_outcomes(config, market, news_signal, n) ==
    IF n = 0 THEN Return(<< >>)
    ELSE Then(SimpleThreshold_analyze_outcomes(config, market, news_signal, n - 1),
              SimpleThreshold_analyze_outcome(config, market, news_signal, n))

\* SimpleThresholdStrategy.analyze_market; news_signal is what
\* get_market_signals gave (None when it raised).
SimpleThreshold_analyze_market(config, market, news_signal) ==
    SimpleThreshold_analyze_outcomes(config, market, news_signal,
                                     Len(outcomes_of(market)))

(***************************************************************************)
(* The threshold-rule strategy analysing one market.  The configurations   *)
(* are the defaults of config.py and two others the environment can set.   *)
(***************************************************************************)
ThresholdConfigs ==
    {[buy_threshold |-> 30, sell_threshold |-> 70, min_edge |-> 15],
     [buy_threshold |-> 30, sell_threshold |-> 60, min_edge |-> 15],
     [buy_threshold |-> 40, sell_threshold |-> 70, min_edge |-> 0]}

YesPrices == {0, 10, 15, 16, 30, 31, 40, 50, 60, 69, 70, 75, 84, 85, 86, 100}

\* Price lists: a YES price alone, complementary YES and NO prices, and
\* lists whose prices do not add up to 1.
PriceLists ==
    {<<y>> : y \in YesPrices} \cup {<<y, 100 - y>> : y \in YesPrices}
        \cup {<<90, 50>>, <<10, 20, 70>>}

NewsSignals ==
    {None,
     Some([signal |-> "neutral", confidence |-> 0, articles |-> 0]),
     Some([signal |-> "bullish", confidence |-> 80, articles |-> 3]),
     Some([signal |-> "bearish", confidence |-> 60, articles |-> 1])}

EndsIn(h) == Some([parsable |-> TRUE, hours |-> h])
Unparsable == Some([parsable |-> FALSE, hours |-> 0])

ThresholdMarkets ==
    [conditionId : {Some("m1")},
     volume : {Some(60000)},
     endDate : {None, EndsIn(10)},
     outcomes : {None, Some(<<"Yes", "No">>), Some(<<"Up", "Down">>)},
     outcomePrices : {None} \cup {Some(l) : l \in PriceLists},
     marketMakerData : {None, Some(<<20, 80>>)},
     bestBidAsk : {None, Some(<<80, 90>>)}]

InitThreshold ==
    InitHelper([config : ThresholdConfigs, market : ThresholdMarkets,
                news_signal : NewsSignals])

AnalyzeThreshold ==
    /\ op = "init"
    /\ ret' = SimpleThreshold_analyze_market(args.config, args.market,
                                             args.news_signal)
    /\ op' = "SimpleThresholdStrategy.analyze_market"
    /\ UNCHANGED <<today, daily_trades, last_reset, open_positions, opportunity,
                   evaluation, compared, rolled, args, loopVars>>

SpecThreshold == InitThreshold /\ [][AnalyzeThreshold]_vars

(***************************************************************************)
(* Claims about the threshold-rule strategy (checked under SpecThreshold). *)
(***************************************************************************)
\* The opportunities the analysis returned.
Emitted == {ret.value[j] : j \in DOMAIN ret.value}

\* The outcomes of the analysed market that have a price.
Priced == {k \in DOMAIN outcomes_of(args.market) :
              k <= Len(extract_prices(args.market))}

\* C17: the threshold-rule strategy emits a buy opportunity for an outcome
\* with price p (current_price = p, predicted_probability = buy_threshold,
\* edge = buy_threshold - p) exactly when p <= buy_threshold and
\* buy_threshold - p >= min_edge.
C17_BuyExactlyWhenCheapEnough ==
    op = "SimpleThresholdStrategy.analyze_market" =>
        /\ ~ret.raised
        /\ \A k \in Priced :
              LET p == extract_prices(args.market)[k]
                  name == upper(outcomes_of(args.market)[k])
              IN (\E o \in Emitted :
                      /\ o.outcome = name
                      /\ o.current_price = p
                      /\ o.predicted_probability = args.config.buy_threshold
                      /\ o.edge = args.config.buy_threshold - p)
                 <=> (/\ p <= args.config.buy_threshold
                      /\ args.config.buy_threshold - p >= args.config.min_edge)

\* YES priced 0.10 under a buy threshold of 0.30 and a minimum edge of 0.15:
\* a YES opportunity with edge 0.20 was emitted.
C17_Witness ==
    /\ op = "SimpleThresholdStrategy.analyze_market"
    /\ args.config = [buy_threshold |-> 30, sell_threshold |-> 70, min_edge |-> 15]
    /\ extract_prices(args.market)[1] = 10
    /\ \E o \in Emitted : o.outcome = "YES" /\ o.current_price = 10 /\ o.edge = 20

\* The YES prices of the analysed market.
YesPricesOf(market) ==
    {extract_prices(market)[k] : k \in {j \in Priced :
                                         upper(outcomes_of(market)[j]) = "YES"}}

\* C18 as claimed: a NO-side opportunity is flagged whenever the YES price
\* is >= sell_threshold and the implied NO price (1 - YES price) is
\* <= buy_threshold.
C18_NoSideWheneverYesExpensive ==
    op = "SimpleThresholdStrategy.analyze_market" =>
        \A p \in YesPricesOf(args.market) :
            (p >= args.config.sell_threshold /\ 100 - p <= args.config.buy_threshold)
                => \E o \in Emitted : o.outcome = "NO"

\* C18 as amended: a NO-side opportunity, priced at the implied NO price, is
\* flagged whenever the YES price is >= sell_threshold, exceeds it by at
\* least min_edge, and the implied NO price is <= buy_threshold.
C18_NoSideWhenYesExpensiveByMinEdge ==
    op = "SimpleThresholdStrategy.analyze_market" =>
        \A p \in YesPricesOf(args.market) :
            (/\ p >= args.config.sell_threshold
             /\ p - args.config.sell_threshold >= args.config.min_edge
             /\ 100 - p <= args.config.buy_threshold)
                => \E o \in Emitted :
                      /\ o.outcome = "NO"
                      /\ o.current_price = 100 - p
                      /\ o.edge = p - args.config.sell_threshold

\* A market that lists only its YES price, 0.85 or more: the NO-side rule
\* alone flagged the NO opportunity.
C18_Witness ==
    /\ op = "SimpleThresholdStrategy.analyze_market"
    /\ Len(extract_prices(args.market)) = 1
    /\ \E p \in YesPricesOf(args.market) :
          /\ p >= args.config.sell_threshold + args.config.min_edge
          /\ \E o \in Emitted : o.outcome = "NO" /\ o.current_price = 100 - p

\* C21: every opportunity the threshold-rule strategy emits has a confidence
\* within [0, 1] (0..1000 thousandths), for all prices, news confidences and
\* thresholds, the 60/40 blend of price and news confidence included.
C21_ConfidenceWithinUnitInterval ==
    op = "SimpleThresholdStrategy.analyze_market" =>
        \A o \in Emitted : o.confidence >= 0 /\ o.confidence <= 1000

\* The labels of the priced outcomes of a market that are labelled l.
Labelled(market, l) ==
    {k \in DOMAIN outcomes_of(market) :
        /\ k <= Len(extract_prices(market))
        /\ upper(outcomes_of(market)[k]) = l}

\* The positions of the returned list that hold an opportunity labelled l.
EmittedFor(l) == {j \in DOMAIN ret.value : ret.value[j].outcome = l}

\* C29 as claimed: the analysis of one market returns at most one opportunity
\* per outcome label.
C29_AtMostOnePerOutcomeLabel ==
    op = "SimpleThresholdStrategy.analyze_market" =>
        \A l \in {"YES", "NO", "UP", "DOWN"} : Cardinality(EmittedFor(l)) <= 1

\* C29 as amended: the analysis returns at most one opportunity per listed
\* outcome from the buy rule, labelled with that outcome, and at most one
\* per outcome labelled YES from the NO-side rule, labelled NO; a YES/NO
\* market gets at most one YES and at most two NO opportunities.
C29_AtMostOnePerRuleAndOutcome ==
    op = "SimpleThresholdStrategy.analyze_market" =>
        \A l \in {"YES", "NO", "UP", "DOWN"} :
            Cardinality(EmittedFor(l)) <=
                Cardinality(Labelled(args.market, l))
                    + (IF l = "NO"
                       THEN Cardinality(Labelled(args.market, "YES"))
                       ELSE 0)

\* YES at 0.85 and NO at 0.15 under the default thresholds: the buy rule and
\* the NO-side rule each emitted a NO opportunity at 0.15.
C29_Witness ==
    /\ op = "SimpleThresholdStrategy.analyze_market"
    /\ extract_prices(args.market) = <<85, 15>>
    /\ Cardinality(EmittedFor("NO")) = 2
    /\ \A j \in EmittedFor("NO") : ret.value[j].current_price = 15

(***************************************************************************)
(* strategies/expiring_markets.py: the rule-based expiring-market          *)
(* strategy, with the defaults of config.py.  Hours are whole hours.       *)
(* confidence is in units of 1/ExpiringUnit, the common denominator of the *)
(* hundredths and of the quotients by (1 - min_probability) and by         *)
(* max_hours_to_expiry; expected_value is in thousandths of a percent.     *)
(***************************************************************************)
\* config.EXPIRING_MIN_PROBABILITY (0.95), in hundredths.
EXPIRING_MIN_PROBABILITY == 95
\* config.EXPIRING_MAX_HOURS and config.EXPIRING_MIN_HOURS.
EXPIRING_MAX_HOURS == 48
EXPIRING_MIN_HOURS == 2
\* config.EXPIRING_MIN_VOLUME.
EXPIRING_MIN_VOLUME == 10000

ExpiringUnit == 10 * (100 - EXPIRING_MIN_PROBABILITY) * EXPIRING_MAX_HOURS

min(a, b) == IF a <= b THEN a ELSE b

\* min(0.95, (price_conf + time_conf) / 2) with
\* price_conf = (price - min_probability) / (1 - min_probability) and
\* time_conf = 1 - hours_to_exp / max_hours_to_expiry.
Expiring_confidence(price, hours_to_exp) ==
    LET price_conf == (price - EXPIRING_MIN_PROBABILITY) * 10 * EXPIRING_MAX_HOURS
        time_conf == (EXPIRING_MAX_HOURS - hours_to_exp) * 10
                         * (100 - EXPIRING_MIN_PROBABILITY)
    IN min((95 * ExpiringUnit) \div 100, (price_conf + time_conf) \div 2)

\* profit_margin = 1.0 - price; expected_return = profit_margin * 100, in
\* thousandths of a percent.  For the prices 0.95 to 0.99 the binary
\* floating-point difference 1.0 - price is above the exact one (0.95 gives
\* 5.000000000000004, 0.96 gives 4.0000000000000036), 1.0 gives 0.0: the
\* excess is kept as one unit.
Expiring_expected_return(price) ==
    IF price < 100 THEN (100 - price) * 1000 + 1 ELSE 0

\* ExpiringMarketsStrategy.analyze_market, the body of the loop over the
\* outcomes.
Expiring_analyze_outcome(market, hours_to_exp, volume, k) ==
    LET prices == extract_prices(market)
        outcome == outcomes_of(market)[k]
    IN IF k > Len(prices) THEN Return(<< >>)
       ELSE IF outcome = NotAString THEN Raise
       ELSE LET price == prices[k]
                outcome_name == upper(outcome)
                high == IF price >= EXPIRING_MIN_PROBABILITY
                        THEN <<MarketOpportunity(
                                 market_id_of(market), outcome_name, price, 99,
                                 Expiring_confidence(price, hours_to_exp),
                                 Expiring_expected_return(price), volume, Some(hours_to_exp))>>
                        ELSE << >>
                no_price == 100 - price
                low == IF price <= 100 - EXPIRING_MIN_PROBABILITY
                       THEN <<MarketOpportunity(
                                market_id_of(market), "NO", no_price, 99,
                                Expiring_confidence(no_price, hours_to_exp),
                                Expiring_expected_return(no_price), volume, Some(hours_to_exp))>>
                       ELSE << >>
            IN Return(high \o low)

RECURSIVE Expiring_analyze_outcomes(_, _, _, _)
Expiring_analyze_outcomes(market, hours_to_exp, volume, n) ==
    IF n = 0 THEN Return(<< >>)
    ELSE Then(Expiring_analyze_outcomes(market, hours_to_exp, volume, n - 1),
              Expiring_analyze_outcome(market, hours_to_exp, volume, n))

\* The analysis without the volume filter.
Expiring_analyze_market_NoVolumeFilter(market) ==
    IF market.endDate = None THEN Return(<< >>)
    ELSE LET end_date == parse_market_end_date(get(market.endDate, None))
         IN IF end_date = None THEN Return(<< >>)
            ELSE LET hours_to_exp == hours_until_expiry(get(end_date, 0))
                     volume == get(market.volume, 0)
                 IN IF \/ hours_to_exp > EXPIRING_MAX_HOURS
                       \/ hours_to_exp < EXPIRING_MIN_HOURS
                    THEN Return(<< >>)
                    ELSE Expiring_analyze_outcomes(market, hours_to_exp, volume,
                                                   Len(outcomes_of(market)))

\* ExpiringMarketsStrategy.analyze_market
Expiring_analyze_market(market) ==
    IF market.endDate = None THEN Return(<< >>)
    ELSE LET end_date == parse_market_end_date(get(market.endDate, None))
         IN IF end_date = None THEN Return(<< >>)
            ELSE LET hours_to_exp == hours_until_expiry(get(end_date, 0))
                     volume == get(market.volume, 0)
                 IN IF \/ hours_to_exp > EXPIRING_MAX_HOURS
                       \/ hours_to_exp < EXPIRING_MIN_HOURS
                    THEN Return(<< >>)
                    ELSE IF volume < EXPIRING_MIN_VOLUME THEN Return(<< >>)
                    ELSE Expiring_analyze_outcomes(market, hours_to_exp, volume,
                                                   Len(outcomes_of(market)))

(***************************************************************************)
(* The expiring-market strategy analysing one market.                      *)
(***************************************************************************)
ExpiringHours == {-5, 0, 1, 2, 10, 24, 48, 49, 200}
ExpiringVolumes == {None, Some(0), Some(5000), Some(9999), Some(10000), Some(60000)}
ExpiringPriceLists ==
    {<<y, 100 - y>> : y \in {0, 3, 5, 6, 50, 94, 95, 97, 100}}
        \cup {<<97>>, <<99, 99>>}

ExpiringMarkets ==
    [conditionId : {Some("m1")},
     volume : ExpiringVolumes,
     endDate : {None, Unparsable} \cup {EndsIn(h) : h \in ExpiringHours},
     outcomes : {None, Some(<<"Yes", "No">>), Some(<<"Up", "Down">>)},
     outcomePrices : {None} \cup {Some(l) : l \in ExpiringPriceLists},
     marketMakerData : {None},
     bestBidAsk : {None, Some(<<96, 98>>)}]

InitExpiring == InitHelper([market : ExpiringMarkets])

AnalyzeExpiring ==
    /\ op = "init"
    /\ ret' = Expiring_analyze_market(args.market)
    /\ op' = "ExpiringMarketsStrategy.analyze_market"
    /\ UNCHANGED <<today, daily_trades, last_reset, open_positions, opportunity,
                   evaluation, compared, rolled, args, loopVars>>

SpecExpiring == InitExpiring /\ [][AnalyzeExpiring]_vars

(***************************************************************************)
(* Claims about the expiring-market strategy (checked under SpecExpiring). *)
(***************************************************************************)
\* The hours to the expiry of the analysed market, None without a parsable
\* timestamp.
HoursOf(market) == hours_to_expiry_of(market)

\* C19: the rule-based expiring-market strategy returns no opportunity for a
\* market whose hours-to-expiry is outside [min_hours_to_expiry,
\* max_hours_to_expiry], whose volume is below min_volume, or which has no
\* parsable expiry timestamp, whatever its prices are.
C19_FilteredBeforePrices ==
    op = "ExpiringMarketsStrategy.analyze_market" =>
        ((\/ HoursOf(args.market) = None
          \/ \E h \in HoursOf(args.market) :
                h < EXPIRING_MIN_HOURS \/ h > EXPIRING_MAX_HOURS
          \/ get(args.market.volume, 0) < EXPIRING_MIN_VOLUME)
            => ret = Return(<< >>))

\* Volume 5,000 under the floor of 10,000, expiry in 10 hours, price 0.97:
\* nothing was returned.
C19_Witness ==
    /\ op = "ExpiringMarketsStrategy.analyze_market"
    /\ args.market.volume = Some(5000)
    /\ args.market.endDate = EndsIn(10)
    /\ extract_prices(args.market)[1] = 97
    /\ ret = Return(<< >>)

\* C30: for a two-outcome YES/NO market, every opportunity of the rule-based
\* expiring-market logic has current_price equal to the listed price of the
\* outcome it names, and at most one opportunity is emitted per label.
C30_PriceOfNamedOutcomeOncePerLabel ==
    (/\ op = "ExpiringMarketsStrategy.analyze_market"
     /\ ~ret.raised
     /\ Len(extract_prices(args.market)) = 2
     /\ upper(outcomes_of(args.market)[1]) = "YES"
     /\ upper(outcomes_of(args.market)[2]) = "NO")
        => /\ \A o \in Emitted :
                 \E k \in Labelled(args.market, o.outcome) :
                     o.current_price = extract_prices(args.market)[k]
           /\ \A l \in {"YES", "NO"} : Cardinality(EmittedFor(l)) <= 1

\* The dict of an opportunity of the expiring-market strategy in the units
\* of the RiskManager: confidence in hundredths and expected_value in whole
\* percents, each rounded up, so that no comparison of evaluate_opportunity
\* that fails for the object passes for the dict.
Expiring_to_dict(o) ==
    [to_dict(o) EXCEPT
        !.confidence = (o.confidence * 100 + ExpiringUnit - 1) \div ExpiringUnit,
        !.expected_value = (o.expected_value + 999) \div 1000]

\* C28: with min_probability = 0.95, every opportunity of the rule-based
\* expiring-market logic has an expected_value that is not above 5 and an
\* edge below 0.1, and evaluate_opportunity returns should_trade = false
\* for it.
C28_ExpiringNeverApproved ==
    op = "ExpiringMarketsStrategy.analyze_market" =>
        \A o \in Emitted :
            /\ Expiring_to_dict(o).expected_value <= 5
            /\ o.edge < 10
            /\ ~evaluate_opportunity(RM, today, Expiring_to_dict(o)).result.should_trade

(***************************************************************************)
(* services/llm.py: the judgment capability.  attempts[a] is what the a-th *)
(* call of LLMService.call does: it raises (timeout, endpoint unavailable, *)
(* service not enabled) or returns a text.  A text is known by what the    *)
(* callers find in it: nothing ("empty"), no JSON object ("no_json"),      *)
(* braces that are no JSON ("invalid_json") or an object, given as the     *)
(* dict of the keys the callers read, each an Optional.                    *)
(***************************************************************************)
\* call_with_retry's max_retries default.
max_retries == 2

RECURSIVE LLMService_retry_from_RaisingAtLast(_, _)
LLMService_retry_from_RaisingAtLast(attempts, a) ==
    IF a > max_retries THEN [raised |-> FALSE, response |-> None, calls |-> a]
    ELSE IF ~attempts[a + 1].failed
    THEN [raised |-> FALSE, response |-> Some(attempts[a + 1].text), calls |-> a + 1]
    ELSE IF a < max_retries THEN LLMService_retry_from_RaisingAtLast(attempts, a + 1)
    ELSE [raised |-> TRUE, response |-> None, calls |-> a + 1]

\* LLMService.call_with_retry, from the attempt numbered a (from 0) on: the
\* text it returns (None when every attempt failed) and the calls it made.
RECURSIVE LLMService_retry_from(_, _)
LLMService_retry_from(attempts, a) ==
    IF a > max_retries THEN [raised |-> FALSE, response |-> None, calls |-> a]
    ELSE IF ~attempts[a + 1].failed
    THEN [raised |-> FALSE, response |-> Some(attempts[a + 1].text), calls |-> a + 1]
    ELSE IF a < max_retries THEN LLMService_retry_from(attempts, a + 1)
    ELSE [raised |-> FALSE, response |-> None, calls |-> a + 1]

\* LLMService.call_with_retry
LLMService_call_with_retry(attempts) == LLMService_retry_from(attempts, 0)

(***************************************************************************)
(* strategies/llm_expiring_markets.py: the model-assisted expiring-market  *)
(* strategy.  Units as for the rule-based strategy.                        *)
(***************************************************************************)
\* strategy_config["llm_confidence_threshold"] (0.7), in hundredths.
LLMExpiring_llm_confidence_threshold == 70

\* LLMExpiringMarketsStrategy._parse_llm_response: the dict, or None.
LLMExpiring_parse_llm_response(response) ==
    IF response.json = "object" THEN Some(response.result) ELSE None

\* A dict without any key is falsy.
EmptyDict ==
    [has_opportunity |-> None, confidence |-> None,
     recommended_outcome |-> None, expected_probability |-> None]

\* The search of the recommended outcome among the labels from position k
\* on: its index (0 when there is none), or the exception of outcome.upper().
RECURSIVE LLMExpiring_outcome_index(_, _, _)
LLMExpiring_outcome_index(outcomes, recommended_outcome, k) ==
    IF k > Len(outcomes) THEN Return(0)
    ELSE IF outcomes[k] = NotAString THEN Raise
    ELSE IF upper(outcomes[k]) = recommended_outcome THEN Return(k)
    ELSE LLMExpiring_outcome_index(outcomes, recommended_outcome, k + 1)

\* LLMExpiringMarketsStrategy._analyze_with_llm
LLMExpiring_analyze_with_llm(market, prices, outcomes, hours_to_exp, volume, attempts) ==
    LET called == LLMService_call_with_retry(attempts)
        response == get(called.response, [json |-> "empty", result |-> EmptyDict])
        llm_result == get(LLMExpiring_parse_llm_response(response), EmptyDict)
        llm_confidence == get(llm_result.confidence, 0)
        recommended_outcome == upper(get(llm_result.recommended_outcome, ""))
        expected_prob == get(llm_result.expected_probability, 99)
        outcome_index == LLMExpiring_outcome_index(outcomes, recommended_outcome, 1)
    IN IF called.raised THEN Raise
       ELSE IF called.response = None \/ response.json = "empty" THEN Return(<< >>)
       ELSE IF llm_result = EmptyDict THEN Return(<< >>)
       ELSE IF ~get(llm_result.has_opportunity, FALSE) THEN Return(<< >>)
       ELSE IF llm_confidence < LLMExpiring_llm_confidence_threshold THEN Return(<< >>)
       ELSE IF outcome_index.raised THEN Raise
       ELSE IF outcome_index.value = 0 \/ outcome_index.value > Len(prices)
       THEN Return(<< >>)
       ELSE LET current_price == prices[outcome_index.value]
                profit_margin == expected_prob - current_price
                expected_return ==
                    IF current_price > 0
                    THEN int(profit_margin * 100 * 1000, current_price)
                    ELSE 0
            IN IF profit_margin <= 0 THEN Return(<< >>)
               ELSE Return(<<MarketOpportunity(
                                market_id_of(market), recommended_outcome,
                                current_price, expected_prob,
                                (llm_confidence * ExpiringUnit) \div 100,
                                expected_return, volume, Some(hours_to_exp))>>)

\* min(0.95, (price_conf + time_conf) / 2) of _analyze_with_rules.
LLMExpiring_confidence(price, hours_to_exp) ==
    LET price_conf == (price - EXPIRING_MIN_PROBABILITY) * 10 * EXPIRING_MAX_HOURS
        time_conf == (EXPIRING_MAX_HOURS - hours_to_exp) * 10
                         * (100 - EXPIRING_MIN_PROBABILITY)
    IN min((95 * ExpiringUnit) \div 100, (price_conf + time_conf) \div 2)

\* LLMExpiringMarketsStrategy._analyze_with_rules, the body of the loop.
LLMExpiring_rules_outcome(market, prices, outcomes, hours_to_exp, volume, k) ==
    IF k > Len(prices) THEN Return(<< >>)
    ELSE IF outcomes[k] = NotAString THEN Raise
    ELSE LET price == prices[k]
             outcome_name == upper(outcomes[k])
             high == IF price >= EXPIRING_MIN_PROBABILITY
                     THEN <<MarketOpportunity(
                              market_id_of(market), outcome_name, price, 99,
                              LLMExpiring_confidence(price, hours_to_exp),
                              Expiring_expected_return(price), volume, Some(hours_to_exp))>>
                     ELSE << >>
             no_price == 100 - price
             low == IF price <= 100 - EXPIRING_MIN_PROBABILITY
                    THEN <<MarketOpportunity(
                             market_id_of(market), "NO", no_price, 99,
                             LLMExpiring_confidence(no_price, hours_to_exp),
                             Expiring_expected_return(no_price), volume, Some(hours_to_exp))>>
                    ELSE << >>
         IN Return(high \o low)

RECURSIVE LLMExpiring_rules_outcomes(_, _, _, _, _, _)
LLMExpiring_rules_outcomes(market, prices, outcomes, hours_to_exp, volume, n) ==
    IF n = 0 THEN Return(<< >>)
    ELSE Then(LLMExpiring_rules_outcomes(market, prices, outcomes, hours_to_exp,
                                         volume, n - 1),
              LLMExpiring_rules_outcome(market, prices, outcomes, hours_to_exp,
                                        volume, n))

\* LLMExpiringMarketsStrategy._analyze_with_rules
LLMExpiring_analyze_with_rules(market, prices, outcomes, hours_to_exp, volume) ==
    LLMExpiring_rules_outcomes(market, prices, outcomes, hours_to_exp, volume,
                               Len(outcomes))

\* The analysis returning whatever the judgment path gave, without the
\* fallback to the rules.
LLMExpiring_analyze_market_NoFallback(market, llm_enabled, attempts) ==
    IF market.endDate = None THEN Return(<< >>)
    ELSE LET end_date == parse_market_end_date(get(market.endDate, None))
         IN IF end_date = None THEN Return(<< >>)
            ELSE LET hours_to_exp == hours_until_expiry(get(end_date, 0))
                     volume == get(market.volume, 0)
                     prices == extract_prices(market)
                     outcomes == outcomes_of(market)
                 IN IF \/ hours_to_exp > EXPIRING_MAX_HOURS
                       \/ hours_to_exp < EXPIRING_MIN_HOURS
                    THEN Return(<< >>)
                    ELSE IF volume < EXPIRING_MIN_VOLUME THEN Return(<< >>)
                    ELSE IF llm_enabled
                    THEN LLMExpiring_analyze_with_llm(market, prices, outcomes,
                                                      hours_to_exp, volume, attempts)
                    ELSE LLMExpiring_analyze_with_rules(market, prices, outcomes,
                                                        hours_to_exp, volume)

\* LLMExpiringMarketsStrategy.analyze_market; llm_enabled is
\* llm_service.is_enabled() at construction.
LLMExpiring_analyze_market(market, llm_enabled, attempts) ==
    IF market.endDate = None THEN Return(<< >>)
    ELSE LET end_date == parse_market_end_date(get(market.endDate, None))
         IN IF end_date = None THEN Return(<< >>)
            ELSE LET hours_to_exp == hours_until_expiry(get(end_date, 0))
                     volume == get(market.volume, 0)
                     prices == extract_prices(market)
                     outcomes == outcomes_of(market)
                     llm_opportunities ==
                         LLMExpiring_analyze_with_llm(market, prices, outcomes,
                                                      hours_to_exp, volume, attempts)
                 IN IF \/ hours_to_exp > EXPIRING_MAX_HOURS
                       \/ hours_to_exp < EXPIRING_MIN_HOURS
                    THEN Return(<< >>)
                    ELSE IF volume < EXPIRING_MIN_VOLUME THEN Return(<< >>)
                    ELSE IF llm_enabled /\ llm_opportunities.raised THEN Raise
                    ELSE IF llm_enabled /\ llm_opportunities.value # << >>
                    THEN llm_opportunities
                    ELSE LLMExpiring_analyze_with_rules(market, prices, outcomes,
                                                        hours_to_exp, volume)

(***************************************************************************)
(* The model-assisted expiring-market strategy analysing one market.       *)
(***************************************************************************)
Failed(error) == [failed |-> TRUE, error |-> error,
                  text |-> [json |-> "empty", result |-> EmptyDict]]
Answered(text) == [failed |-> FALSE, error |-> "", text |-> text]

Judgment(has_opportunity, confidence, recommended_outcome, expected_probability) ==
    [json |-> "object",
     result |-> [has_opportunity |-> has_opportunity, confidence |-> confidence,
                 recommended_outcome |-> recommended_outcome,
                 expected_probability |-> expected_probability]]

ExpiringJudgments ==
    {[json |-> "empty", result |-> EmptyDict],
     [json |-> "no_json", result |-> EmptyDict],
     [json |-> "invalid_json", result |-> EmptyDict],
     [json |-> "object", result |-> EmptyDict],
     Judgment(Some(TRUE), Some(90), Some("YES"), Some(99)),
     Judgment(Some(TRUE), Some(90), Some("No"), None),
     Judgment(Some(TRUE), Some(60), Some("YES"), Some(99)),
     Judgment(Some(FALSE), Some(90), Some("YES"), Some(99)),
     Judgment(Some(TRUE), Some(90), Some("YES"), Some(50)),
     Judgment(Some(TRUE), Some(90), Some("MAYBE"), Some(99))}

ExpiringAttempts ==
    {Failed("timeout"), Failed("unavailable")}
        \cup {Answered(t) : t \in ExpiringJudgments}

LLMExpiringMarkets ==
    [conditionId : {Some("m1")},
     volume : {Some(5000), Some(60000)},
     endDate : {None, Unparsable, EndsIn(1), EndsIn(10), EndsIn(48)},
     outcomes : {None},
     outcomePrices : {None, Some(<<97, 3>>), Some(<<3, 97>>), Some(<<50, 50>>),
                      Some(<<0, 100>>)},
     marketMakerData : {None},
     bestBidAsk : {None}]

InitLLMExpiring ==
    InitHelper([market : LLMExpiringMarkets, llm_enabled : BOOLEAN,
                attempts : [1..(max_retries + 1) -> ExpiringAttempts]])

AnalyzeLLMExpiring ==
    /\ op = "init"
    /\ ret' = LLMExpiring_analyze_market(args.market, args.llm_enabled, args.attempts)
    /\ op' = "LLMExpiringMarketsStrategy.analyze_market"
    /\ UNCHANGED <<today, daily_trades, last_reset, open_positions, opportunity,
                   evaluation, compared, rolled, args, loopVars>>

SpecLLMExpiring == InitLLMExpiring /\ [][AnalyzeLLMExpiring]_vars

(***************************************************************************)
(* Claims about the model-assisted expiring-market strategy (checked under *)
(* SpecLLMExpiring).                                                       *)
(***************************************************************************)
\* The market passes the window and volume filters.
Eligible(market) ==
    /\ \E h \in HoursOf(market) : h >= EXPIRING_MIN_HOURS /\ h <= EXPIRING_MAX_HOURS
    /\ get(market.volume, 0) >= EXPIRING_MIN_VOLUME

EveryAttemptFails == \A a \in DOMAIN args.attempts : args.attempts[a].failed

\* C13: when the judgment capability fails on every attempt for an eligible
\* market, analyze_market raises no exception and returns exactly the list
\* of the rule-based expiring-market logic for that market: the list of
\* _analyze_with_rules, which is the list ExpiringMarketsStrategy gives.
C13_FallbackWhenJudgmentFails ==
    (/\ op = "LLMExpiringMarketsStrategy.analyze_market"
     /\ args.llm_enabled
     /\ EveryAttemptFails
     /\ Eligible(args.market))
        => /\ ~ret.raised
           /\ ret = LLMExpiring_analyze_with_rules(
                        args.market, extract_prices(args.market),
                        outcomes_of(args.market),
                        get(HoursOf(args.market), 0), get(args.market.volume, 0))
           /\ ret = Expiring_analyze_market(args.market)

\* Three failed attempts on an eligible market priced 0.97: the rule-based
\* opportunity was returned.
C13_Witness ==
    /\ op = "LLMExpiringMarketsStrategy.analyze_market"
    /\ args.llm_enabled
    /\ EveryAttemptFails
    /\ Eligible(args.market)
    /\ ~ret.raised
    /\ Len(ret.value) >= 1
    /\ ret.value[1].current_price = 97
    /\ ret.value[1].predicted_probability = 99

(***************************************************************************)
(* LLMService.call_with_retry on its own: attempts[a] is what the a-th     *)
(* call of the judgment endpoint does, were it made.                       *)
(***************************************************************************)
InitRetry == InitHelper([attempts : [1..(max_retries + 1) -> ExpiringAttempts]])

CallWithRetry ==
    /\ op = "init"
    /\ ret' = LLMService_call_with_retry(args.attempts)
    /\ op' = "LLMService.call_with_retry"
    /\ UNCHANGED <<today, daily_trades, last_reset, open_positions, opportunity,
                   evaluation, compared, rolled, args, loopVars>>

SpecRetry == InitRetry /\ [][CallWithRetry]_vars

\* The attempts that succeed.
Successes == {a \in DOMAIN args.attempts : ~args.attempts[a].failed}

\* C24: call_with_retry ends after at most max_retries + 1 calls of the
\* endpoint: it returns the first successful response and calls no more after
\* it, and returns None, raising nothing, when all max_retries + 1 attempts
\* fail.
C24_BoundedRetries ==
    op = "LLMService.call_with_retry" =>
        /\ ~ret.raised
        /\ ret.calls <= max_retries + 1
        /\ IF Successes = {}
           THEN ret.response = None /\ ret.calls = max_retries + 1
           ELSE LET first == CHOOSE a \in Successes : \A b \in Successes : a <= b
                IN /\ ret.response = Some(args.attempts[first].text)
                   /\ ret.calls = first

\* Every attempt failed: None after max_retries + 1 calls.
C24_Witness ==
    /\ op = "LLMService.call_with_retry"
    /\ Successes = {}
    /\ ret.response = None
    /\ ret.calls = max_retries + 1

(***************************************************************************)
(* strategies/llm_simple_threshold.py: the model-assisted threshold        *)
(* strategy.  config holds min_edge and llm_confidence_threshold; the      *)
(* thresholds of the prompt and the news summary only shape the prompt and *)
(* the news_signals texts.  confidence is in hundredths, expected_value    *)
(* in hundredths.  attempt is what the one call of LLMService.call does;   *)
(* the dict of an answer holds should_trade and recommendations, a         *)
(* recommendation holds outcome, confidence and predicted_probability.     *)
(***************************************************************************)
\* LLMSimpleThresholdStrategy._analyze_with_llm: the dict, or None.  The
\* try block catches the exception of the call and of json.loads.
LLMThreshold_analyze_with_llm(attempt) ==
    IF attempt.failed THEN None
    ELSE IF attempt.text.json # "object" THEN None
    ELSE IF get(attempt.text.result.should_trade, FALSE)
    THEN Some(attempt.text.result)
    ELSE None

\* The price of the recommended outcome among the labels from position k
\* on: 0.5 when no label with a price matches, or the exception of
\* out.upper().
RECURSIVE LLMThreshold_price_of(_, _, _, _)
LLMThreshold_price_of(outcomes, prices, outcome, k) ==
    IF k > Len(outcomes) THEN Return(50)
    ELSE IF outcomes[k] = NotAString THEN Raise
    ELSE IF upper(outcomes[k]) = upper(outcome) /\ k <= Len(prices)
    THEN Return(prices[k])
    ELSE LLMThreshold_price_of(outcomes, prices, outcome, k + 1)

\* _create_opportunity_from_llm without the test of the confidence.
LLMThreshold_create_opportunity_from_llm_AnyConfidence(config, market, recommendation) ==
    LET outcome == get(recommendation.outcome, "YES")
        confidence == get(recommendation.confidence, 50)
        predicted_prob == get(recommendation.predicted_probability, 50)
        prices == extract_prices(market)
        outcomes == outcomes_of(market)
        listed == LLMThreshold_price_of(outcomes, prices, outcome, 1)
        current_price ==
            IF upper(outcome) = "NO" /\ Len(outcomes) = 2 /\ upper(outcomes[1]) = "YES"
            THEN 100 - prices[1]
            ELSE listed.value
        edge == abs(predicted_prob - current_price)
    IN IF listed.raised THEN Raise
       ELSE IF upper(outcome) = "NO" /\ Len(outcomes) = 2 /\ outcomes[1] = NotAString
       THEN Raise
       ELSE IF edge < config.min_edge THEN Return(<< >>)
       ELSE Return(<<MarketOpportunity(
                        market_id_of(market), outcome, current_price, predicted_prob,
                        confidence, edge * confidence, get(market.volume, 0),
                        hours_to_expiry_of(market))>>)

\* LLMSimpleThresholdStrategy._create_opportunity_from_llm: the opportunity
\* (a list of one), None (the empty list), or an exception.
LLMThreshold_create_opportunity_from_llm(config, market, recommendation) ==
    LET outcome == get(recommendation.outcome, "YES")
        confidence == get(recommendation.confidence, 50)
        predicted_prob == get(recommendation.predicted_probability, 50)
        prices == extract_prices(market)
        outcomes == outcomes_of(market)
        listed == LLMThreshold_price_of(outcomes, prices, outcome, 1)
        current_price ==
            IF upper(outcome) = "NO" /\ Len(outcomes) = 2 /\ upper(outcomes[1]) = "YES"
            THEN 100 - prices[1]
            ELSE listed.value
        edge == abs(predicted_prob - current_price)
    IN IF confidence < config.llm_confidence_threshold THEN Return(<< >>)
       ELSE IF listed.raised THEN Raise
       ELSE IF upper(outcome) = "NO" /\ Len(outcomes) = 2 /\ outcomes[1] = NotAString
       THEN Raise
       ELSE IF edge < config.min_edge THEN Return(<< >>)
       ELSE Return(<<MarketOpportunity(
                        market_id_of(market), outcome, current_price, predicted_prob,
                        confidence, edge * confidence, get(market.volume, 0),
                        hours_to_expiry_of(market))>>)

RECURSIVE LLMThreshold_recommendations(_, _, _, _)
LLMThreshold_recommendations(config, market, recommendations, n) ==
    IF n = 0 THEN Return(<< >>)
    ELSE Then(LLMThreshold_recommendations(config, market, recommendations, n - 1),
              LLMThreshold_create_opportunity_from_llm(config, market,
                                                       recommendations[n]))

\* LLMSimpleThresholdStrategy.analyze_market
LLMThreshold_analyze_market(config, market, attempt) ==
    LET llm_analysis == LLMThreshold_analyze_with_llm(attempt)
        recommendations == get(get(llm_analysis, [recommendations |-> None]).recommendations, << >>)
    IN IF llm_analysis = None THEN Return(<< >>)
       ELSE LLMThreshold_recommendations(config, market, recommendations,
                                         Len(recommendations))

(***************************************************************************)
(* The model-assisted threshold strategy analysing one market.             *)
(***************************************************************************)
LLMThresholdConfigs ==
    {[min_edge |-> 15, llm_confidence_threshold |-> 60],
     [min_edge |-> 0, llm_confidence_threshold |-> 60]}

Recommendation(outcome, confidence, predicted_probability) ==
    [outcome |-> outcome, confidence |-> confidence,
     predicted_probability |-> predicted_probability]

Recommendations ==
    {Recommendation(Some("YES"), Some(80), Some(40)),
     Recommendation(Some("YES"), Some(59), Some(40)),
     Recommendation(Some("YES"), Some(60), Some(24)),
     Recommendation(Some("No"), Some(90), Some(60)),
     Recommendation(Some("Up"), Some(70), Some(100)),
     Recommendation(None, None, None)}

\* The most recommendations an answer holds.
MaxRecommendations == 2

Analysis(should_trade, recommendations) ==
    [json |-> "object",
     result |-> [should_trade |-> should_trade, recommendations |-> recommendations]]

NoAnalysis == [should_trade |-> None, recommendations |-> None]

ThresholdJudgments ==
    {[json |-> "empty", result |-> NoAnalysis],
     [json |-> "no_json", result |-> NoAnalysis],
     [json |-> "invalid_json", result |-> NoAnalysis],
     [json |-> "object", result |-> NoAnalysis]}
        \cup {Analysis(t, Some(l)) :
                 t \in {Some(TRUE), Some(FALSE)},
                 l \in BoundedSeq(Recommendations, MaxRecommendations)}

ThresholdAttempts ==
    {[failed |-> TRUE, error |-> e, text |-> [json |-> "empty", result |-> NoAnalysis]] :
        e \in {"timeout", "unavailable"}}
        \cup {Answered(t) : t \in ThresholdJudgments}

LLMThresholdMarkets ==
    [conditionId : {Some("m1")},
     volume : {Some(60000)},
     endDate : {None},
     outcomes : {None, Some(<<"Up", "Down">>), Some(<<"Yes", "No", "Maybe">>)},
     outcomePrices : {None, Some(<<10, 90>>), Some(<<25>>), Some(<<40, 50, 10>>)},
     marketMakerData : {None},
     bestBidAsk : {None}]

InitLLMThreshold ==
    InitHelper([config : LLMThresholdConfigs, market : LLMThresholdMarkets,
                attempt : ThresholdAttempts])

AnalyzeLLMThreshold ==
    /\ op = "init"
    /\ ret' = LLMThreshold_analyze_market(args.config, args.market, args.attempt)
    /\ op' = "LLMSimpleThresholdStrategy.analyze_market"
    /\ UNCHANGED <<today, daily_trades, last_reset, open_positions, opportunity,
                   evaluation, compared, rolled, args, loopVars>>

SpecLLMThreshold == InitLLMThreshold /\ [][AnalyzeLLMThreshold]_vars

(***************************************************************************)
(* Claims about the model-assisted threshold strategy (checked under       *)
(* SpecLLMThreshold).                                                      *)
(***************************************************************************)
\* The recommendations of the answer, when the call gave a JSON object.
Recommended ==
    LET l == get(args.attempt.text.result.recommendations, << >>)
    IN {l[j] : j \in DOMAIN l}

\* C20: the model-assisted threshold strategy emits an opportunity for a
\* recommendation only if the recommendation's confidence is
\* >= llm_confidence_threshold and the recomputed edge
\* |predicted_probability - current_price| is >= min_edge; when the call
\* fails or its output is no JSON, analyze_market returns an empty list
\* without raising (no rule-based fallback).
C20_OnlyConfidentRecommendations ==
    op = "LLMSimpleThresholdStrategy.analyze_market" =>
        /\ ~ret.raised
        /\ \A o \in Emitted :
              /\ o.confidence >= args.config.llm_confidence_threshold
              /\ abs(o.predicted_probability - o.current_price) >= args.config.min_edge
              /\ \E r \in Recommended :
                    /\ get(r.confidence, 50) = o.confidence
                    /\ get(r.predicted_probability, 50) = o.predicted_probability
                    /\ get(r.outcome, "YES") = o.outcome
        /\ (args.attempt.failed \/ args.attempt.text.json # "object")
              => ret = Return(<< >>)

\* An answer with a confident and an unconfident recommendation: only the
\* confident one was emitted.
C20_Witness ==
    /\ op = "LLMSimpleThresholdStrategy.analyze_market"
    /\ \E r \in Recommended : get(r.confidence, 50) < args.config.llm_confidence_threshold
    /\ Len(ret.value) = 1
    /\ ret.value[1].confidence >= args.config.llm_confidence_threshold

(***************************************************************************)
(* strategies/interactive.py: the multi-signal fusion strategy.  Signals   *)
(* and weights are in hundredths, the scores (combined_score,              *)
(* normalized_score, edge) and the prices of its opportunities in          *)
(* ten-thousandths, confidence in units of 0.0005.  Signals and weights    *)
(* are multiples of 0.05, so edge is a whole number of 0.005:              *)
(* expected_value is the product of edge in units of 0.005 and confidence. *)
(* A news signal is None (news disabled or the service failed) or the      *)
(* sequence of its articles' sentiments ("" for an article without one).   *)
(***************************************************************************)
INTERACTIVE_PRICE_EDGE == 15
INTERACTIVE_MIN_VOLUME == 50000
SENTIMENT_WEIGHT == 30
PRICE_WEIGHT == 40
VOLUME_WEIGHT == 30

\* InteractiveStrategy._calculate_price_signal (both branches return alike)
Interactive_calculate_price_signal(price, outcome) ==
    IF price < 20 THEN 80
    ELSE IF price < 35 THEN 65
    ELSE IF price > 80 THEN 20
    ELSE IF price > 65 THEN 35
    ELSE 50

\* InteractiveStrategy._calculate_volume_signal
Interactive_calculate_volume_signal(volume) ==
    IF volume > 1000000 THEN 90
    ELSE IF volume > 500000 THEN 75
    ELSE IF volume > 100000 THEN 60
    ELSE IF volume > 50000 THEN 50
    ELSE 30

\* The sentiment one article adds for an outcome.
Interactive_sentiment(article_sentiment, outcome) ==
    LET sentiment_score ==
            IF article_sentiment = "positive" THEN 70
            ELSE IF article_sentiment = "negative" THEN 30
            ELSE 50
    IN IF outcome = "YES" THEN sentiment_score ELSE 100 - sentiment_score

RECURSIVE Interactive_total_sentiment(_, _, _)
Interactive_total_sentiment(articles, outcome, n) ==
    IF n = 0 THEN [total |-> 0, count |-> 0]
    ELSE LET before == Interactive_total_sentiment(articles, outcome, n - 1)
         IN IF articles[n] = "" THEN before
            ELSE [total |-> before.total + Interactive_sentiment(articles[n], outcome),
                  count |-> before.count + 1]

\* InteractiveStrategy._calculate_news_signal
Interactive_calculate_news_signal(news_signal, outcome) ==
    LET articles == get(news_signal, << >>)
        summed == Interactive_total_sentiment(articles, outcome, Len(articles))
    IN IF news_signal = None \/ articles = << >> THEN 50
       ELSE IF summed.count = 0 THEN 50
       ELSE summed.total \div summed.count

\* InteractiveStrategy._calculate_confidence
Interactive_calculate_confidence(edge, news_signal, volume, price_signal) ==
    LET articles == get(news_signal, << >>)
        confidence ==
            1000 + (edge * 3) \div 50
            + (IF volume > 500000 THEN 400
               ELSE IF volume > 100000 THEN 200 ELSE 0)
            + (IF articles # << >> THEN min(Len(articles) * 100, 400) ELSE 0)
            + (IF price_signal > 70 \/ price_signal < 30 THEN 200 ELSE 0)
    IN min(confidence, 1900)

\* One turn of the loop of InteractiveStrategy.analyze_market (lines 121-206).
Interactive_analyze_outcome(market, news_signal, volume, k) ==
    LET prices == extract_prices(market)
        outcome == outcomes_of(market)[k]
        price == prices[k]
        outcome_name == upper(outcome)
        price_signal == Interactive_calculate_price_signal(price, outcome_name)
        volume_signal == Interactive_calculate_volume_signal(volume)
        news_signal_score ==
            IF news_signal # None
            THEN Interactive_calculate_news_signal(news_signal, outcome_name)
            ELSE 50
        combined_score ==
            price_signal * PRICE_WEIGHT + volume_signal * VOLUME_WEIGHT
                + news_signal_score * SENTIMENT_WEIGHT
        total_weight == PRICE_WEIGHT + VOLUME_WEIGHT + SENTIMENT_WEIGHT
        normalized_score == (combined_score * 100) \div total_weight
        edge == abs(normalized_score - 5000)
        should_buy == normalized_score > 5000
        confidence ==
            Interactive_calculate_confidence(edge, news_signal, volume, price_signal)
        target_outcome ==
            IF should_buy THEN outcome_name
            ELSE IF outcome_name = "YES" THEN "NO" ELSE "YES"
        target_price == IF should_buy THEN price * 100 ELSE (100 - price) * 100
    IN IF k > Len(prices) THEN Return(<< >>)
       ELSE IF outcome = NotAString THEN Raise
       ELSE IF edge >= INTERACTIVE_PRICE_EDGE * 100
               /\ confidence >= MIN_CONFIDENCE_THRESHOLD * 20
       THEN Return(<<MarketOpportunity(market_id_of(market), target_outcome,
                                        target_price, normalized_score, confidence,
                                        (edge \div 50) * confidence, volume,
                                        hours_to_expiry_of(market))>>)
       ELSE Return(<< >>)

RECURSIVE Interactive_analyze_outcomes(_, _, _, _)
Interactive_analyze_outcomes(market, news_signal, volume, n) ==
    IF n = 0 THEN Return(<< >>)
    ELSE Then(Interactive_analyze_outcomes(market, news_signal, volume, n - 1),
              Interactive_analyze_outcome(market, news_signal, volume, n))

\* InteractiveStrategy.analyze_market
Interactive_analyze_market(market, news_signal) ==
    LET volume == get(market.volume, 0)
    IN IF volume < INTERACTIVE_MIN_VOLUME THEN Return(<< >>)
       ELSE Interactive_analyze_outcomes(market, news_signal, volume,
                                         Len(outcomes_of(market)))

(***************************************************************************)
(* find_opportunities of the five market-analysis strategies.  analysed is *)
(* the result analyze_market has for each market of the batch; the active  *)
(* flag is is_active().                                                    *)
(***************************************************************************)
RECURSIVE scan_markets_NoSkip(_, _, _, _)
scan_markets_NoSkip(markets, positions, analysed, n) ==
    IF n = 0 THEN Return(<< >>)
    ELSE LET before == scan_markets_NoSkip(markets, positions, analysed, n - 1)
         IN IF before.raised THEN Raise
            ELSE Then(before, analysed[n])

\* The loop `for market in markets` of a find_opportunities that has no
\* handler: an exception of analyze_market leaves the loop and the method.
RECURSIVE scan_markets(_, _, _, _)
scan_markets(markets, positions, analysed, n) ==
    IF n = 0 THEN Return(<< >>)
    ELSE LET before == scan_markets(markets, positions, analysed, n - 1)
         IN IF before.raised THEN Raise
            ELSE IF has_position(markets[n], positions) THEN before
            ELSE Then(before, analysed[n])

\* The loop of LLMSimpleThresholdStrategy.find_opportunities, whose handler
\* logs the exception of a market and continues with the next.
RECURSIVE scan_markets_catching(_, _, _, _)
scan_markets_catching(markets, positions, analysed, n) ==
    IF n = 0 THEN Return(<< >>)
    ELSE LET before == scan_markets_catching(markets, positions, analysed, n - 1)
         IN IF has_position(markets[n], positions) THEN before
            ELSE IF analysed[n].raised THEN before
            ELSE Then(before, analysed[n])

\* SimpleThresholdStrategy.find_opportunities
SimpleThreshold_find_opportunities(active, config, markets, positions, news_signal) ==
    IF ~active THEN Return(<< >>)
    ELSE scan_markets(markets, positions,
             [j \in DOMAIN markets |->
                 SimpleThreshold_analyze_market(config, markets[j], news_signal)],
             Len(markets))

\* ExpiringMarketsStrategy.find_opportunities
Expiring_find_opportunities(active, markets, positions) ==
    IF ~active THEN Return(<< >>)
    ELSE scan_markets(markets, positions,
             [j \in DOMAIN markets |-> Expiring_analyze_market(markets[j])],
             Len(markets))

\* LLMExpiringMarketsStrategy.find_opportunities
LLMExpiring_find_opportunities(active, markets, positions, llm_enabled, attempts) ==
    IF ~active THEN Return(<< >>)
    ELSE scan_markets(markets, positions,
             [j \in DOMAIN markets |->
                 LLMExpiring_analyze_market(markets[j], llm_enabled, attempts)],
             Len(markets))

\* LLMSimpleThresholdStrategy.find_opportunities
LLMThreshold_find_opportunities(active, config, markets, positions, attempt) ==
    IF ~active THEN Return(<< >>)
    ELSE scan_markets_catching(markets, positions,
             [j \in DOMAIN markets |->
                 LLMThreshold_analyze_market(config, markets[j], attempt)],
             Len(markets))

\* list.sort(key=..., reverse=True), one insertion into the list of the
\* keyed items sorted so far: stable, so x goes behind the items whose key
\* is at least its own.
insert_descending(sorted, x) ==
    LET p == Cardinality({j \in DOMAIN sorted : sorted[j].key >= x.key})
    IN SubSeq(sorted, 1, p) \o <<x>> \o SubSeq(sorted, p + 1, Len(sorted))

\* The items of a list of keyed items.
items(sorted) == [j \in DOMAIN sorted |-> sorted[j].item]

\* The key of the sort of _get_markets_to_analyze.
volume_key(market) == get(market.volume, 0)

\* The key of the sort of InteractiveStrategy.find_opportunities.
value_key(o) == o.expected_value * o.confidence

RECURSIVE Interactive_sort_markets(_, _)
Interactive_sort_markets(list, n) ==
    IF n = 0 THEN << >>
    ELSE insert_descending(Interactive_sort_markets(list, n - 1),
                           [key |-> volume_key(list[n]), item |-> list[n]])

RECURSIVE Interactive_sort_opportunities(_, _)
Interactive_sort_opportunities(list, n) ==
    IF n = 0 THEN << >>
    ELSE insert_descending(Interactive_sort_opportunities(list, n - 1),
                           [key |-> value_key(list[n]), item |-> list[n]])

\* list[:n]
head(list, n) == SubSeq(list, 1, min(n, Len(list)))

\* InteractiveStrategy._get_markets_to_analyze (check_trending_topics is True)
Interactive_get_markets_to_analyze(all_markets) ==
    LET high_volume_markets ==
            SelectSeq(all_markets, LAMBDA m : get(m.volume, 0) >= INTERACTIVE_MIN_VOLUME)
    IN head(items(Interactive_sort_markets(high_volume_markets,
                                           Len(high_volume_markets))), 50)

\* InteractiveStrategy.find_opportunities: the handler encloses the loop,
\* so an exception of one market ends the method with [].
Interactive_find_opportunities(active, markets, positions, news_signal) ==
    LET markets_to_analyze == Interactive_get_markets_to_analyze(markets)
        found ==
            scan_markets(markets_to_analyze, positions,
                [j \in DOMAIN markets_to_analyze |->
                    Interactive_analyze_market(markets_to_analyze[j], news_signal)],
                Len(markets_to_analyze))
    IN IF ~active THEN Return(<< >>)
       ELSE IF found.raised THEN Return(<< >>)
       ELSE Return(head(items(Interactive_sort_opportunities(found.value,
                                                             Len(found.value))), 10))

(***************************************************************************)
(* strategies/index.py: the index-rebalancing strategy.  A target          *)
(* allocation is a record (condition_id, outcome, target_shares);          *)
(* index_status is the outcome of get_index_status (an exception, None or  *)
(* the list of target allocations); api_market is what the markets API has *)
(* for a condition id that is not in the batch (None: nothing, or the call *)
(* failed).  Prices and confidence are in hundredths.                      *)
(***************************************************************************)
check_interval == 60
rebalance_threshold == 5

\* open_positions.get(condition_id, {}).get("size", 0)
position_size_of(positions, condition_id) ==
    IF \E j \in DOMAIN positions : positions[j].condition_id = condition_id
    THEN positions[CHOOSE j \in DOMAIN positions :
                       positions[j].condition_id = condition_id].size
    ELSE 0

\* IndexStrategy._find_market_by_condition_id: None stands for the empty dict.
Index_find_market_by_condition_id(markets, condition_id, api_market) ==
    LET listed == {j \in DOMAIN markets : markets[j].conditionId = Some(condition_id)}
    IN IF listed # {}
       THEN Some(markets[CHOOSE j \in listed : \A h \in listed : j <= h])
       ELSE api_market

\* One turn of the loop over the target allocations (lines 96-143).
Index_rebalance(markets, positions, api_market, target) ==
    LET current_allocation == position_size_of(positions, target.condition_id)
        target_allocation == target.target_shares
        exceeds ==
            IF target_allocation = 0 THEN current_allocation > 0
            ELSE abs(target_allocation - current_allocation) * 100
                     > rebalance_threshold * target_allocation
        market == Index_find_market_by_condition_id(markets, target.condition_id,
                                                    api_market)
    IN IF exceeds /\ market # None
       THEN LET m == get(market, None)
                prices == extract_prices(m)
            IN <<MarketOpportunity(target.condition_id, target.outcome, prices[1],
                                   prices[1], 90, 0, get(m.volume, 0), None)>>
       ELSE << >>

RECURSIVE Index_rebalances(_, _, _, _, _)
Index_rebalances(markets, positions, api_market, targets, n) ==
    IF n = 0 THEN << >>
    ELSE Index_rebalances(markets, positions, api_market, targets, n - 1)
             \o Index_rebalance(markets, positions, api_market, targets[n])

\* One turn of the loop over the held positions with an exit that carries
\* an expected_value of 25.
Index_exit_Valued(markets, api_market, targets, position) ==
    LET in_index == \E j \in DOMAIN targets :
                        targets[j].condition_id = position.condition_id
        market == Index_find_market_by_condition_id(markets, position.condition_id,
                                                    api_market)
    IN IF ~in_index /\ position.size > 0 /\ market # None
       THEN LET m == get(market, None)
                prices == extract_prices(m)
            IN <<MarketOpportunity(position.condition_id, position.outcome,
                                   prices[1], 0, 95, 25, get(m.volume, 0), None)>>
       ELSE << >>

\* One turn of the loop over the held positions (lines 146-180).
Index_exit(markets, api_market, targets, position) ==
    LET in_index == \E j \in DOMAIN targets :
                        targets[j].condition_id = position.condition_id
        market == Index_find_market_by_condition_id(markets, position.condition_id,
                                                    api_market)
    IN IF ~in_index /\ position.size > 0 /\ market # None
       THEN LET m == get(market, None)
                prices == extract_prices(m)
            IN <<MarketOpportunity(position.condition_id, position.outcome,
                                   prices[1], 0, 95, 0, get(m.volume, 0), None)>>
       ELSE << >>

RECURSIVE Index_exits(_, _, _, _, _)
Index_exits(markets, positions, api_market, targets, n) ==
    IF n = 0 THEN << >>
    ELSE Index_exits(markets, positions, api_market, targets, n - 1)
             \o Index_exit(markets, api_market, targets, positions[n])

\* IndexStrategy.find_opportunities; active is is_active() and index_service.
Index_find_opportunities(active, markets, positions, minutes_since_last, index_status, api_market) ==
    IF ~active THEN Return(<< >>)
    ELSE IF minutes_since_last < check_interval THEN Return(<< >>)
    ELSE IF index_status.raised THEN Return(<< >>)
    ELSE LET targets == get(index_status.value, << >>)
         IN IF targets = << >> THEN Return(<< >>)
            ELSE Return(Index_rebalances(markets, positions, api_market, targets,
                                         Len(targets))
                        \o Index_exits(markets, positions, api_market, targets,
                                       Len(positions)))

(***************************************************************************)
(* A strategy asked for the opportunities of a batch of markets.  Markets  *)
(* are active markets as get_active_markets returns them (the volume a     *)
(* number); a market may lack its conditionId, and its outcomes may hold a *)
(* label that is no string.  The services answer every market of a batch   *)
(* alike.                                                                  *)
(***************************************************************************)
\* The most markets in a batch.
MaxMarkets == 2

FindMarkets ==
    [conditionId : {None, Some("m1"), Some("m2")},
     volume : {Some(600000)},
     endDate : {EndsIn(10)},
     outcomes : {Some(<<"Yes", "No">>), Some(<<NotAString, "No">>)},
     outcomePrices : {Some(<<10, 90>>), Some(<<97, 3>>)},
     marketMakerData : {None},
     bestBidAsk : {None}]

Position(condition_id, size) ==
    [condition_id |-> condition_id, size |-> size, outcome |-> "YES"]

PositionDicts ==
    {<< >>}
        \cup {<<Position(c, z)>> : c \in {"m1", "m2", ""}, z \in {0, 10}}
        \cup {<<Position("m1", y), Position("m2", z)>> : y, z \in {0, 10}}

Target(condition_id, outcome, target_shares) ==
    [condition_id |-> condition_id, outcome |-> outcome,
     target_shares |-> target_shares]

IndexStatuses ==
    {Raise, Return(None), Return(Some(<< >>)),
     Return(Some(<<Target("m1", "YES", 10)>>)),
     Return(Some(<<Target("m1", "YES", 20), Target("m3", "NO", 0)>>))}

ApiMarket ==
    [conditionId |-> Some("m3"), volume |-> Some(60000), endDate |-> None,
     outcomes |-> None, outcomePrices |-> Some(<<40, 60>>),
     marketMakerData |-> None, bestBidAsk |-> None]

Always(attempt) == [a \in 1..(max_retries + 1) |-> attempt]

\* The inputs a strategy does not read.
FindDefaults ==
    [strategy |-> "", active |-> TRUE, markets |-> << >>, positions |-> << >>,
     news_signal |-> None, llm_enabled |-> FALSE,
     attempts |-> Always(Failed("timeout")), attempt |-> Failed("timeout"),
     articles |-> None, minutes_since_last |-> 0, index_status |-> Raise,
     api_market |-> None]

\* The strategy asked and what the services answer it.
FindEnvironments ==
    {[FindDefaults EXCEPT !.strategy = "SimpleThresholdStrategy", !.news_signal = n] :
        n \in {None, Some([signal |-> "bullish", confidence |-> 80, articles |-> 3])}}
    \cup {[FindDefaults EXCEPT !.strategy = "ExpiringMarketsStrategy"]}
    \cup {[FindDefaults EXCEPT !.strategy = "LLMExpiringMarketsStrategy",
                               !.llm_enabled = TRUE, !.attempts = Always(t)] :
             t \in {Failed("timeout"),
                    Answered(Judgment(Some(TRUE), Some(90), Some("YES"), Some(99))),
                    Answered(Judgment(Some(TRUE), Some(90), Some("No"), Some(50)))}}
    \cup {[FindDefaults EXCEPT !.strategy = "LLMSimpleThresholdStrategy", !.attempt = t] :
             t \in {Failed("timeout"),
                    Answered(Analysis(Some(TRUE),
                        Some(<<Recommendation(Some("YES"), Some(80), Some(40))>>))),
                    Answered(Analysis(Some(TRUE),
                        Some(<<Recommendation(Some("No"), Some(90), Some(60)),
                               Recommendation(Some("YES"), Some(60), Some(24))>>)))}}
    \cup {[FindDefaults EXCEPT !.strategy = "InteractiveStrategy", !.articles = n] :
             n \in {None, Some(<<"positive", "">>), Some(<<"negative", "positive">>)}}
    \cup {[FindDefaults EXCEPT !.strategy = "IndexStrategy", !.minutes_since_last = t,
                               !.index_status = x, !.api_market = k] :
             t \in {30, 60}, x \in IndexStatuses, k \in {None, Some(ApiMarket)}}

InitFind ==
    \E e \in FindEnvironments, a \in BOOLEAN, p \in PositionDicts :
        \E m \in BoundedSeq(FindMarkets, MaxMarkets) :
            InitHelper({[e EXCEPT !.active = a, !.markets = m, !.positions = p]})

\* The configuration config.py gives the two threshold strategies.
DefaultThresholdConfig ==
    [buy_threshold |-> 30, sell_threshold |-> 70, min_edge |-> 15,
     llm_confidence_threshold |-> 60]

\* What the strategy of args returns for the batch `markets`.
find_opportunities(a, markets) ==
    CASE a.strategy = "SimpleThresholdStrategy" ->
            SimpleThreshold_find_opportunities(a.active, DefaultThresholdConfig,
                markets, a.positions, a.news_signal)
      [] a.strategy = "ExpiringMarketsStrategy" ->
            Expiring_find_opportunities(a.active, markets, a.positions)
      [] a.strategy = "LLMExpiringMarketsStrategy" ->
            LLMExpiring_find_opportunities(a.active, markets, a.positions,
                a.llm_enabled, a.attempts)
      [] a.strategy = "LLMSimpleThresholdStrategy" ->
            LLMThreshold_find_opportunities(a.active, DefaultThresholdConfig,
                markets, a.positions, a.attempt)
      [] a.strategy = "InteractiveStrategy" ->
            Interactive_find_opportunities(a.active, markets, a.positions, a.articles)
      [] a.strategy = "IndexStrategy" ->
            Index_find_opportunities(a.active, markets, a.positions,
                a.minutes_since_last, a.index_status, a.api_market)

Find(strategy) ==
    /\ op = "init"
    /\ args.strategy = strategy
    /\ ret' = find_opportunities(args, args.markets)
    /\ op' = "find_opportunities"
    /\ UNCHANGED <<today, daily_trades, last_reset, open_positions, opportunity,
                   evaluation, compared, rolled, args, loopVars>>

FindSimpleThreshold == Find("SimpleThresholdStrategy")
FindExpiring == Find("ExpiringMarketsStrategy")
FindLLMExpiring == Find("LLMExpiringMarketsStrategy")
FindLLMThreshold == Find("LLMSimpleThresholdStrategy")
FindInteractive == Find("InteractiveStrategy")
FindIndex == Find("IndexStrategy")

NextFind ==
    \/ FindSimpleThreshold
    \/ FindExpiring
    \/ FindLLMExpiring
    \/ FindLLMThreshold
    \/ FindInteractive
    \/ FindIndex

SpecFind == InitFind /\ [][NextFind]_vars

(***************************************************************************)
(* Claims about find_opportunities (checked under SpecFind).               *)
(***************************************************************************)
\* The opportunities the strategy returned.
Found ==
    IF op = "find_opportunities" /\ ~ret.raised
    THEN {ret.value[j] : j \in DOMAIN ret.value}
    ELSE {}

\* The keys of the open_positions the strategy was given.
Held == {args.positions[j].condition_id : j \in DOMAIN args.positions}

\* C11: every opportunity a strategy produces, and the dict of it that the
\* risk manager is given, has edge = abs(predicted_probability -
\* current_price): the constructor derives it and nothing assigns it later.
C11_EdgeIsAbsoluteDifference ==
    \A o \in Found :
        /\ o.edge = abs(o.predicted_probability - o.current_price)
        /\ to_dict(o).edge
               = abs(to_dict(o).predicted_probability - to_dict(o).current_price)

\* An opportunity whose predicted probability lies under its price.
C11_Witness ==
    \E o \in Found :
        /\ o.predicted_probability < o.current_price
        /\ to_dict(o).edge = o.current_price - o.predicted_probability

\* C12: for every strategy variant, index-rebalancing included,
\* find_opportunities never returns an opportunity whose market_id is a key
\* of open_positions.
C12_NoOpportunityForHeldMarket ==
    \A o \in Found : o.market_id \notin Held

\* C12, amended: the five market-analysis variants never return an
\* opportunity of a market whose conditionId is a key of open_positions; a
\* returned market_id is a key only if it is "", the market_id of a market
\* without conditionId.
C12_NoOpportunityForHeldConditionId ==
    args.strategy # "IndexStrategy" =>
        \A o \in Found : o.market_id \in Held => o.market_id = ""

\* A market-analysis strategy given a batch of a held market and another
\* one returns opportunities, all of the other one.
C12_Witness ==
    /\ args.strategy # "IndexStrategy"
    /\ \E j \in DOMAIN args.markets : has_position(args.markets[j], args.positions)
    /\ \E o \in Found : o.market_id # ""
    /\ \A o \in Found : o.market_id \notin Held

\* What analyze_market of the strategy has for one market.
analysis(a, market) ==
    CASE a.strategy = "SimpleThresholdStrategy" ->
            SimpleThreshold_analyze_market(DefaultThresholdConfig, market, a.news_signal)
      [] a.strategy = "ExpiringMarketsStrategy" -> Expiring_analyze_market(market)
      [] a.strategy = "LLMExpiringMarketsStrategy" ->
            LLMExpiring_analyze_market(market, a.llm_enabled, a.attempts)
      [] a.strategy = "LLMSimpleThresholdStrategy" ->
            LLMThreshold_analyze_market(DefaultThresholdConfig, market, a.attempt)
      [] a.strategy = "InteractiveStrategy" ->
            Interactive_analyze_market(market, a.articles)
      [] a.strategy = "IndexStrategy" -> Return(<< >>)

\* The markets of the batch whose analysis raises no exception.
Sound(a) == SelectSeq(a.markets, LAMBDA m : ~analysis(a, m).raised)

\* C14: for every strategy, an error raised while analysing one market of
\* the batch is caught at that market: find_opportunities raises nothing and
\* returns what it returns for the batch without the markets whose analysis
\* fails.
C14_BadMarketDoesNotAbortScan ==
    op = "find_opportunities" =>
        /\ ~ret.raised
        /\ ret = find_opportunities(args, Sound(args))

(***************************************************************************)
(* The index strategy over time.  Times are minutes on the clock           *)
(* datetime.now() reads; args holds the strategy object (active,           *)
(* last_check), the clock, and compared_at, the time of the last call that *)
(* compared the index status with the holdings (None before the first).    *)
(***************************************************************************)
Listed(condition_id, yes_price) ==
    [conditionId |-> Some(condition_id), volume |-> Some(600000),
     endDate |-> EndsIn(10), outcomes |-> Some(<<"Yes", "No">>),
     outcomePrices |-> Some(<<yes_price, 100 - yes_price>>),
     marketMakerData |-> None, bestBidAsk |-> None]

\* The batches get_active_markets returns.
IndexBatches ==
    {<<Listed("m1", 10)>>, <<Listed("m1", 97), Listed("m2", 10)>>}

\* datetime.min, the last_check of a new strategy object: earlier than any
\* time the clock reads by more than check_interval.
datetime_min == -1000000

\* The last minute the clock reaches.
MaxMinutes == 130

\* find_opportunities with a last_check that every call overwrites.
Index_find_opportunities_at_AlwaysStamped(active, markets, positions, last_check, now, index_status, api_market) ==
    LET minutes_since_last == now - last_check
        checked == active /\ minutes_since_last >= check_interval
    IN [value |-> Index_find_opportunities(active, markets, positions,
                      minutes_since_last, index_status, api_market),
        last_check |-> now,
        compared |-> checked /\ ~index_status.raised
                         /\ get(index_status.value, << >>) # << >>]

\* IndexStrategy.find_opportunities called at `now` on an object with the
\* given last_check: what it returns, the last_check it leaves (assigned in
\* line 73, once the interval test of line 66 is passed and before the index
\* status is asked for), and whether it went on to compare the target
\* allocations of the index status with the holdings (from line 96).
Index_find_opportunities_at(active, markets, positions, last_check, now, index_status, api_market) ==
    LET minutes_since_last == now - last_check
        checked == active /\ minutes_since_last >= check_interval
    IN [value |-> Index_find_opportunities(active, markets, positions,
                      minutes_since_last, index_status, api_market),
        last_check |-> IF checked THEN now ELSE last_check,
        compared |-> checked /\ ~index_status.raised
                         /\ get(index_status.value, << >>) # << >>]

InitIndexClock ==
    InitHelper([active : BOOLEAN, last_check : {datetime_min}, now : {0},
                compared_at : {None}])

\* Time passes between two iterations of the agent.
Tick ==
    /\ \E d \in {1, 59, 60} :
          /\ args.now + d <= MaxMinutes
          /\ args' = [args EXCEPT !.now = @ + d]
    /\ op' = "tick"
    /\ UNCHANGED <<today, daily_trades, last_reset, open_positions, opportunity,
                   evaluation, compared, rolled, ret, loopVars>>

IndexFindOpportunities ==
    /\ \E m \in IndexBatches, p \in {<< >>, <<Position("m2", 10)>>},
          x \in IndexStatuses, k \in {None, Some(ApiMarket)} :
          LET r == Index_find_opportunities_at(args.active, m, p, args.last_check,
                                               args.now, x, k)
          IN /\ ret' = r.value
             /\ args' = [args EXCEPT
                            !.last_check = r.last_check,
                            !.compared_at = IF r.compared THEN Some(args.now) ELSE @]
    /\ op' = "IndexStrategy.find_opportunities"
    /\ UNCHANGED <<today, daily_trades, last_reset, open_positions, opportunity,
                   evaluation, compared, rolled, loopVars>>

NextIndexClock == Tick \/ IndexFindOpportunities

SpecIndexClock == InitIndexClock /\ [][NextIndexClock]_vars

\* C25: between two calls of find_opportunities that compare the index
\* status with the holdings at least check_interval minutes elapse, and a
\* call made sooner (after such a call, or after last_check) returns the
\* empty list and leaves last_check unchanged.
C25_NoMoreOftenThanCheckInterval ==
    [][op' = "IndexStrategy.find_opportunities" =>
          /\ (\/ \E t \in args.compared_at : args.now - t < check_interval
              \/ args.now - args.last_check < check_interval)
                => /\ ret' = Return(<< >>)
                   /\ args'.last_check = args.last_check
                   /\ args'.compared_at = args.compared_at
          /\ args'.compared_at # args.compared_at
                => \A t \in args.compared_at : args.now - t >= check_interval]_vars

\* A call 59 minutes after the call that last compared the index status:
\* it returned the empty list and last_check is still the time of that call.
C25_Witness ==
    /\ op = "IndexStrategy.find_opportunities"
    /\ args.compared_at = Some(args.last_check)
    /\ args.now - args.last_check = 59
    /\ ret = Return(<< >>)

(***************************************************************************)
(* The index strategy in front of the RiskManager: scan_and_trade with the *)
(* index strategy among the active ones, and evaluate_opportunity called   *)
(* with the dict of an opportunity the index strategy returns for a        *)
(* portfolio.                                                              *)
(***************************************************************************)
\* What the strategies that run before the index strategy return: nothing,
\* or a proposal for the market the index holds a target for.
OtherResults ==
    {<< >>} \cup {<<u>> : u \in {v \in LoopUniverse :
                                     v.expected_value > 5 /\ v.market_id = "m1"}}

\* The portfolios evaluate_opportunity is asked about.
HeldPortfolios ==
    {<< >>, <<Position("m2", 10)>>, <<Position("m1", 10), Position("m2", 10)>>}

\* scan_and_trade up to the call of evaluate_and_execute, the index strategy
\* being the last of the active strategies; open_positions is the empty
\* dict of line 143.
ScanWithIndex ==
    /\ pc = "idle"
    /\ \E others \in OtherResults, m \in IndexBatches,
          x \in IndexStatuses \ {Return(None), Return(Some(<< >>))} :
          LET found == Index_find_opportunities(TRUE, m, << >>, check_interval,
                                                x, Some(ApiMarket)).value
              list == aggregate(others \o found)
          IN /\ strategy_results' = <<others, found>>
             /\ IF list = << >>
                THEN UNCHANGED <<pc, opportunities, i>>
                ELSE /\ pc' = "evaluate"
                     /\ opportunities' = list
                     /\ i' = 1
    /\ op' = "scan"
    /\ opportunity' = NoOpportunity
    /\ evaluation' = NoEvaluation
    /\ compared' = << >>
    /\ rolled' = FALSE
    /\ UNCHANGED <<today, daily_trades, last_reset, open_positions, args, ret,
                   mock_trading>>

\* evaluate_opportunity called with the dict of an opportunity that
\* IndexStrategy.find_opportunities returns for a portfolio.
EvaluateIndexOpportunity ==
    /\ pc = "idle"
    /\ \E m \in IndexBatches, p \in HeldPortfolios,
          x \in IndexStatuses \ {Raise, Return(None), Return(Some(<< >>))},
          k \in {None, Some(ApiMarket)} :
          LET found == Index_find_opportunities(TRUE, m, p, check_interval, x, k).value
          IN \E j \in DOMAIN found :
                LET e == evaluate_opportunity(RM, today, to_dict(found[j]))
                IN /\ SetRM(e.rm)
                   /\ opportunity' = to_dict(found[j])
                   /\ evaluation' = e.result
                   /\ compared' = e.compared
                   /\ rolled' = (today > last_reset)
    /\ op' = "evaluate_index"
    /\ UNCHANGED <<today, args, ret, loopVars>>

NextIndexLoop ==
    \/ ScanWithIndex
    \/ EvaluateIndexOpportunity
    \/ EvaluateCandidate
    \/ ExecuteTrade
    \/ DayRollover
    \/ ClosePosition

SpecIndexLoop == Init /\ [][NextIndexLoop]_vars

\* The opportunities of the current scan that the index strategy returned.
FromIndex ==
    IF Len(strategy_results) = 2
    THEN {strategy_results[2][j] : j \in DOMAIN strategy_results[2]}
    ELSE {}

\* C27: no opportunity of the index strategy is approved by the RiskManager:
\* each carries expected_value = 0, evaluate_opportunity returns
\* should_trade = false for it whatever the counters are, and the decision
\* loop never executes (and so never records) a trade for one.
C27_IndexNeverApproved ==
    /\ op = "evaluate_index"
          => opportunity.expected_value = 0 /\ ~evaluation.should_trade
    /\ (op = "evaluate" /\ opportunity \in {to_dict(o) : o \in FromIndex})
          => ~evaluation.should_trade
    /\ pc = "execute" => candidates(opportunities)[i] \notin FromIndex

\* After a recorded trade, the exit of a held position outside the index
\* passed every gate but expected_value > 5 and was rejected.
C27_Witness ==
    /\ op = "evaluate_index"
    /\ daily_trades > 0
    /\ opportunity.confidence = 95
    /\ evaluation.final_confidence >= MIN_CONFIDENCE_THRESHOLD * 100
    /\ evaluation.position_size > 0
    /\ evaluation.risk_score < 50
    /\ ~evaluation.should_trade
====
